---------------------------- MODULE Spec2Model ----------------------------
(***************************************************************************)
(* Model of the Quant client backend: the hybrid post-quantum encryption   *)
(* core (backend/src/encryption) and the request handlers that use it      *)
(* (backend/src/handlers/email.rs, backend/src/db, backend/src/main.rs).   *)
(*                                                                         *)
(* Rust Strings and byte vectors are sequences of bytes (0..255); a String *)
(* is the sequence of its UTF-8 bytes.                                     *)
(***************************************************************************)
EXTENDS Integers, Sequences, FiniteSets, Bags, TLC

VARIABLES
    DEBUG_MODE,     \* encryption::DEBUG_MODE, the process-wide static flag
    enc,            \* harness: the last encrypt_message call and its result
    call,           \* harness: the last core call (operation, inputs, result)
    user_keys,      \* table user_keys: the set of its rows
    emails,         \* table emails: sequence of rows, the id is the index
    outbox,         \* messages accepted by the Gmail transport
    cache,          \* Redis: the Email objects written by cache_email
    reqs,           \* the bag of requests in flight: handler, inputs, position, locals
    received,       \* the number of requests the server has accepted
    response,       \* the response the server sent last
    threads,        \* worker threads: the core call each one is running
    retry           \* get_connection_with_retry: the call's position and locals

vars ==
    <<DEBUG_MODE, enc, call, user_keys, emails, outbox, cache, reqs, received,
      response, threads, retry>>

coreVars == <<DEBUG_MODE, enc, call>>
serverVars == <<user_keys, emails, outbox, cache, reqs, received, response>>
threadVars == <<threads>>
cacheVars == <<retry>>

(***************************************************************************)
(* Bytes and strings                                                       *)
(***************************************************************************)
Bit(x, k) == (x \div (2 ^ k)) % 2

\* u8 ^ u8
XorByte(a, b) ==
    ((Bit(a, 0) + Bit(b, 0)) % 2)
    + 2 * ((Bit(a, 1) + Bit(b, 1)) % 2)
    + 4 * ((Bit(a, 2) + Bit(b, 2)) % 2)
    + 8 * ((Bit(a, 3) + Bit(b, 3)) % 2)
    + 16 * ((Bit(a, 4) + Bit(b, 4)) % 2)
    + 32 * ((Bit(a, 5) + Bit(b, 5)) % 2)
    + 64 * ((Bit(a, 6) + Bit(b, 6)) % 2)
    + 128 * ((Bit(a, 7) + Bit(b, 7)) % 2)

\* s[from..to] as a sequence (empty when to < from)
Slice(s, from, to) == [i \in 1..(to - from + 1) |-> s[from + i - 1]]

Repeat(s, n) == [i \in 1..(n * Len(s)) |-> s[((i - 1) % Len(s)) + 1]]

StartsWith(s, p) == Len(p) <= Len(s) /\ \A i \in 1..Len(p) : s[i] = p[i]

EndsWith(s, p) ==
    Len(p) <= Len(s) /\ \A i \in 1..Len(p) : s[Len(s) - Len(p) + i] = p[i]

\* p occurs in s starting at index i
OccursAt(s, p, i) ==
    i + Len(p) - 1 <= Len(s) /\ \A j \in 1..Len(p) : s[i + j - 1] = p[j]

\* str::contains
Contains(s, p) == \E i \in 1..(Len(s) + 1) : OccursAt(s, p, i)

(***************************************************************************)
(* base64 (crate base64, STANDARD alphabet, '=' padding)                   *)
(***************************************************************************)
PadChar == 61

B64Char(v) ==
    IF v < 26 THEN 65 + v
    ELSE IF v < 52 THEN 97 + (v - 26)
    ELSE IF v < 62 THEN 48 + (v - 52)
    ELSE IF v = 62 THEN 43 ELSE 47

\* the 6-bit value of a symbol, -1 for a byte outside the alphabet
B64Val(c) ==
    IF c >= 65 /\ c <= 90 THEN c - 65
    ELSE IF c >= 97 /\ c <= 122 THEN c - 97 + 26
    ELSE IF c >= 48 /\ c <= 57 THEN c - 48 + 52
    ELSE IF c = 43 THEN 62
    ELSE IF c = 47 THEN 63 ELSE -1

\* encode_config(bytes, STANDARD); `<<>> \o` makes the result a tuple
encode_config(bytes) ==
    LET n == Len(bytes)
        at(i) == IF i <= n THEN bytes[i] ELSE 0
    IN <<>> \o [j \in 1..(4 * ((n + 2) \div 3)) |->
          LET g == (j - 1) \div 4
              k == (j - 1) % 4
              b0 == at(3 * g + 1)
              b1 == at(3 * g + 2)
              b2 == at(3 * g + 3)
          IN IF k = 0 THEN B64Char(b0 \div 4)
             ELSE IF k = 1 THEN B64Char((b0 % 4) * 16 + (b1 \div 16))
             ELSE IF k = 2 THEN
                 (IF 3 * g + 2 > n THEN PadChar
                  ELSE B64Char((b1 % 16) * 4 + (b2 \div 64)))
             ELSE (IF 3 * g + 3 > n THEN PadChar ELSE B64Char(b2 % 64))]

\* number of trailing '=' of a text (at most 3 are looked at)
TrailingPad(text) ==
    LET L == Len(text)
        isPad(i) == i >= 1 /\ text[i] = PadChar
    IN IF ~isPad(L) THEN 0
       ELSE IF ~isPad(L - 1) THEN 1
       ELSE IF ~isPad(L - 2) THEN 2 ELSE 3

\* decode_config(text, STANDARD): [ok, bytes]
decode_config(text) ==
    LET L == Len(text)
        pad == TrailingPad(text)
        data == L - pad
        val(i) == IF i <= data THEN B64Val(text[i]) ELSE 0
        wellFormed ==
            /\ pad <= 2
            /\ \A i \in 1..data : B64Val(text[i]) >= 0
            /\ data % 4 # 1
            /\ pad > 0 => L % 4 = 0
            /\ data % 4 = 2 => B64Val(text[data]) % 16 = 0
            /\ data % 4 = 3 => B64Val(text[data]) % 4 = 0
    IN IF ~wellFormed THEN [ok |-> FALSE, bytes |-> <<>>]
       ELSE [ok |-> TRUE,
             bytes |-> [i \in 1..((data * 3) \div 4) |->
                 LET g == (i - 1) \div 3
                     k == (i - 1) % 3
                     v0 == val(4 * g + 1)
                     v1 == val(4 * g + 2)
                     v2 == val(4 * g + 3)
                     v3 == val(4 * g + 4)
                 IN IF k = 0 THEN v0 * 4 + (v1 \div 16)
                    ELSE IF k = 1 THEN (v1 % 16) * 16 + (v2 \div 4)
                    ELSE (v2 % 4) * 64 + v3]]

(***************************************************************************)
(* UTF-8 (String::from_utf8, str::is_char_boundary)                        *)
(***************************************************************************)
IsCont(b) == b >= 128 /\ b <= 191

\* length of the well-formed UTF-8 sequence starting at s[i], 0 if none
Utf8SeqLen(s, i) ==
    LET n == Len(s)
        b0 == s[i]
        c(k) == IF i + k <= n THEN s[i + k] ELSE 0
    IN IF b0 <= 127 THEN 1
       ELSE IF b0 >= 194 /\ b0 <= 223 THEN (IF IsCont(c(1)) THEN 2 ELSE 0)
       ELSE IF b0 = 224 THEN
           (IF c(1) >= 160 /\ c(1) <= 191 /\ IsCont(c(2)) THEN 3 ELSE 0)
       ELSE IF (b0 >= 225 /\ b0 <= 236) \/ b0 = 238 \/ b0 = 239 THEN
           (IF IsCont(c(1)) /\ IsCont(c(2)) THEN 3 ELSE 0)
       ELSE IF b0 = 237 THEN
           (IF c(1) >= 128 /\ c(1) <= 159 /\ IsCont(c(2)) THEN 3 ELSE 0)
       ELSE IF b0 = 240 THEN
           (IF c(1) >= 144 /\ c(1) <= 191 /\ IsCont(c(2)) /\ IsCont(c(3))
            THEN 4 ELSE 0)
       ELSE IF b0 >= 241 /\ b0 <= 243 THEN
           (IF IsCont(c(1)) /\ IsCont(c(2)) /\ IsCont(c(3)) THEN 4 ELSE 0)
       ELSE IF b0 = 244 THEN
           (IF c(1) >= 128 /\ c(1) <= 143 /\ IsCont(c(2)) /\ IsCont(c(3))
            THEN 4 ELSE 0)
       ELSE 0

RECURSIVE Utf8ValidFrom(_, _)
Utf8ValidFrom(s, i) ==
    IF i > Len(s) THEN TRUE
    ELSE LET k == Utf8SeqLen(s, i)
         IN IF k = 0 THEN FALSE ELSE Utf8ValidFrom(s, i + k)

\* String::from_utf8(bytes).is_ok()
from_utf8_ok(bytes) == Utf8ValidFrom(bytes, 1)

\* str::is_char_boundary(index), for a valid String s and a 0-based index
is_char_boundary(s, index) ==
    IF index = 0 \/ index = Len(s) THEN TRUE
    ELSE IF index > Len(s) THEN FALSE
    ELSE ~IsCont(s[index + 1])

(***************************************************************************)
(* The KEM primitive (crate pqcrypto_kyber, kyber768).  The sizes are the  *)
(* parameter set's; the byte contents are a stand-in that keeps the KEM's  *)
(* contract: any byte string of the right length is a key or a ciphertext, *)
(* decapsulation with the matching secret key returns the encapsulated     *)
(* secret, and decapsulation with any other key fails silently, returning  *)
(* another secret (implicit rejection).                                    *)
(***************************************************************************)
KYBER_PUBLICKEYBYTES == 1184
KYBER_SECRETKEYBYTES == 2400
KYBER_CIPHERTEXTBYTES == 1088
KYBER_SSBYTES == 32

\* the public value that belongs to a secret value
PubOf(x) == (x * 7 + 3) % 256

\* kyber768::keypair(), drawing `seed` from the entropy source
keypair(seed) ==
    [pk |-> [i \in 1..KYBER_PUBLICKEYBYTES |->
                IF i = 1 THEN PubOf(seed) ELSE (seed * 3 + i) % 256],
     sk |-> [i \in 1..KYBER_SECRETKEYBYTES |->
                IF i = 1 THEN seed ELSE (seed * 5 + i) % 256]]

\* the 32-byte secret of an encapsulation: two coins give two secrets, which
\* differ in every byte after the first and, for the coins 2k-1 and 2k, agree
\* in the first byte
SharedSecret(tag, coin) ==
    [i \in 1..KYBER_SSBYTES |->
        IF i = 1 THEN (tag * 31 + ((coin + 1) \div 2) * 17 + 1) % 256
        ELSE (tag * 31 + coin * 17 + i * (2 * coin + 1)) % 256]

\* kyber768::encapsulate returning one ciphertext whatever it draws
encapsulate_same_ct(pk, coin) ==
    [ct |-> [i \in 1..KYBER_CIPHERTEXTBYTES |->
                IF i = 1 THEN 1 ELSE IF i = 2 THEN pk[1] ELSE (pk[1] + i) % 256],
     ss |-> SharedSecret(pk[1], coin % 256)]

\* kyber768::encapsulate(&pk), drawing `coin` from the entropy source
encapsulate(pk, coin) ==
    [ct |-> [i \in 1..KYBER_CIPHERTEXTBYTES |->
                IF i = 1 THEN coin % 256
                ELSE IF i = 2 THEN pk[1]
                ELSE (coin * 11 + pk[1] + i) % 256],
     ss |-> SharedSecret(pk[1], coin % 256)]

\* the secret a non-matching key decapsulates to: it differs from the
\* encapsulated one, in every byte for an even coin and in every byte but
\* the first for an odd coin
RejectSecret(ct, sk) ==
    [i \in 1..KYBER_SSBYTES |->
        (SharedSecret(ct[2], ct[1])[i]
           + ((i - 1) + (1 - (ct[1] % 2))) * (2 * sk[1] + 1)) % 256]

\* kyber768::decapsulate(&ct, &sk)
decapsulate(ct, sk) ==
    IF PubOf(sk[1]) = ct[2] THEN SharedSecret(ct[2], ct[1])
    ELSE RejectSecret(ct, sk)

(***************************************************************************)
(* encryption/mod.rs                                                       *)
(***************************************************************************)
\* "[Q-ENCRYPTED]"
ENCRYPTION_MARKER == <<91, 81, 45, 69, 78, 67, 82, 89, 80, 84, 69, 68, 93>>

EXPECTED_KYBER_CIPHERTEXT_SIZE == 1088

\* "[DECRYPTION DEMO MODE]"
DEMO_PLACEHOLDER ==
    <<91, 68, 69, 67, 82, 89, 80, 84, 73, 79, 78, 32,
      68, 69, 77, 79, 32, 77, 79, 68, 69, 93>>

\* generate_keypair with the two keys in each other's field
generate_keypair_swapped(seed) ==
    LET kp == keypair(seed)
    IN [public_key |-> encode_config(kp.sk), secret_key |-> encode_config(kp.pk)]

\* generate_keypair(), with the entropy made explicit
generate_keypair(seed) ==
    LET kp == keypair(seed)
    IN [public_key |-> encode_config(kp.pk), secret_key |-> encode_config(kp.sk)]

\* the key stretching without the loop: the secret once, then zero bytes
KeyStretchZeroPad(ss, n) ==
    ss \o [i \in 1..(IF n > Len(ss) THEN n - Len(ss) ELSE 0) |-> 0]

\* the key stretching loop: the secret once, then appended whole while the
\* key is shorter than the message
KeyStretch(ss, n) ==
    Repeat(ss, IF n <= Len(ss) THEN 1 ELSE (n + Len(ss) - 1) \div Len(ss))

\* the XOR loop run over the whole key buffer instead of the input
XorBytesKeyLen(bytes, key_bytes) ==
    [i \in 1..Len(key_bytes) |->
        XorByte(IF i <= Len(bytes) THEN bytes[i] ELSE 0, key_bytes[i])]

\* the XOR loop indexing the key with 0 instead of i
XorBytesFirstKey(bytes, key_bytes) ==
    [i \in 1..Len(bytes) |-> XorByte(bytes[i], key_bytes[1])]

\* the XOR loop over the input bytes
XorBytes(bytes, key_bytes) ==
    [i \in 1..Len(bytes) |-> XorByte(bytes[i], key_bytes[i])]

\* &s[..k] panics unless k is a char boundary of s
SliceToPanics(s, k) == ~is_char_boundary(s, k)

NoMessage == [ciphertext |-> <<>>, encapsulated_key |-> <<>>]

EncOk(m) == [kind |-> "Ok", msg |-> m, err |-> ""]
EncErr(e) == [kind |-> "Err", msg |-> NoMessage, err |-> e]
EncPanic == [kind |-> "Panic", msg |-> NoMessage, err |-> ""]

\* encrypt_message handing out the first 32 bytes of the KEM ciphertext as
\* encapsulated_key
encrypt_message_ek32(message, public_key_b64, coin, debug) ==
    LET pkd == decode_config(public_key_b64)
    IN IF ~pkd.ok THEN EncErr("KeyFormatError")
       ELSE IF Len(pkd.bytes) # KYBER_PUBLICKEYBYTES THEN EncErr("KeyFormatError")
       ELSE LET kem == encapsulate(pkd.bytes, coin)
            IN EncOk([ciphertext |->
                          encode_config(XorBytes(message,
                                                 KeyStretch(kem.ss, Len(message)))),
                      encapsulated_key |->
                          encode_config(Slice(kem.ct, 1, KYBER_SSBYTES))])

\* encrypt_message without the length check of PublicKey::from_bytes
encrypt_message_any_length(message, public_key_b64, coin, debug) ==
    LET pkd == decode_config(public_key_b64)
    IN IF ~pkd.ok \/ pkd.bytes = <<>> THEN EncErr("KeyFormatError")
       ELSE LET kem == encapsulate(pkd.bytes, coin)
            IN EncOk([ciphertext |->
                          encode_config(XorBytes(message,
                                                 KeyStretch(kem.ss, Len(message)))),
                      encapsulated_key |-> encode_config(kem.ct)])

\* encrypt_message(message, public_key_b64) with DEBUG_MODE = debug and the
\* encapsulation drawing `coin`
encrypt_message(message, public_key_b64, coin, debug) ==
    LET pkd == decode_config(public_key_b64)
    IN IF ~pkd.ok THEN EncErr("KeyFormatError")
       ELSE IF Len(pkd.bytes) # KYBER_PUBLICKEYBYTES THEN EncErr("KeyFormatError")
       ELSE
         LET kem == encapsulate(pkd.bytes, coin)
             key_bytes == KeyStretch(kem.ss, Len(message))
             encrypted_bytes == XorBytes(message, key_bytes)
             message_ciphertext_b64 == encode_config(encrypted_bytes)
             kyber_ciphertext_b64 == encode_config(kem.ct)
         IN IF debug /\ ( (Len(message_ciphertext_b64) > 20
                             /\ SliceToPanics(message_ciphertext_b64, 20))
                       \/ (Len(kyber_ciphertext_b64) > 20
                             /\ SliceToPanics(kyber_ciphertext_b64, 20)) )
            THEN EncPanic
            ELSE EncOk([ciphertext |-> message_ciphertext_b64,
                        encapsulated_key |-> kyber_ciphertext_b64])

DecOk(t) == [kind |-> "Ok", val |-> t, err |-> ""]
DecErr(e) == [kind |-> "Err", val |-> <<>>, err |-> e]
DecPanic == [kind |-> "Panic", val |-> <<>>, err |-> ""]

\* the Err arm of Ciphertext::from_bytes: the 32-byte "workaround"
DemoFallback(encrypted_msg) ==
    LET cd == decode_config(encrypted_msg.ciphertext)
    IN IF ~cd.ok THEN DecErr("CiphertextDecodeError")
       ELSE IF from_utf8_ok(cd.bytes) THEN DecOk(cd.bytes)
       ELSE DecOk(DEMO_PLACEHOLDER)

\* the tail of decrypt_message: from_utf8, then the debug trace
DecryptFinish(decrypted_bytes, debug) ==
    IF ~from_utf8_ok(decrypted_bytes) THEN DecErr("Utf8DecodeError")
    ELSE IF debug /\ Len(decrypted_bytes) > 30 /\ SliceToPanics(decrypted_bytes, 30)
    THEN DecPanic
    ELSE DecOk(decrypted_bytes)

\* decrypt_message without the length check of SecretKey::from_bytes
decrypt_message_any_length(encrypted_msg, secret_key_b64, debug) ==
    LET skd == decode_config(secret_key_b64)
        ekd == decode_config(encrypted_msg.encapsulated_key)
        cd == decode_config(encrypted_msg.ciphertext)
    IN IF ~skd.ok \/ skd.bytes = <<>> THEN DecErr("KeyFormatError")
       ELSE IF ~ekd.ok THEN DecErr("EncapsulatedKeyDecodeError")
       ELSE IF Len(ekd.bytes) # KYBER_CIPHERTEXTBYTES
       THEN DecErr("CiphertextSizeMismatch")
       ELSE IF ~cd.ok THEN DecErr("CiphertextDecodeError")
       ELSE DecryptFinish(
                XorBytes(cd.bytes,
                         KeyStretch(decapsulate(ekd.bytes, skd.bytes),
                                    Len(cd.bytes))), debug)

\* decrypt_message(encrypted_msg, secret_key_b64) with DEBUG_MODE = debug
decrypt_message(encrypted_msg, secret_key_b64, debug) ==
    LET skd == decode_config(secret_key_b64)
        ekd == decode_config(encrypted_msg.encapsulated_key)
    IN IF ~skd.ok THEN DecErr("KeyFormatError")
       ELSE IF Len(skd.bytes) # KYBER_SECRETKEYBYTES THEN DecErr("KeyFormatError")
       ELSE IF ~ekd.ok THEN DecErr("EncapsulatedKeyDecodeError")
       ELSE IF Len(ekd.bytes) # KYBER_CIPHERTEXTBYTES THEN
           (IF Len(ekd.bytes) = 32 /\ EXPECTED_KYBER_CIPHERTEXT_SIZE = 1088
            THEN DemoFallback(encrypted_msg)
            ELSE DecErr("CiphertextSizeMismatch"))
       ELSE
         LET shared_secret == decapsulate(ekd.bytes, skd.bytes)
             cd == decode_config(encrypted_msg.ciphertext)
         IN IF ~cd.ok THEN DecErr("CiphertextDecodeError")
            ELSE DecryptFinish(
                     XorBytes(cd.bytes, KeyStretch(shared_secret, Len(cd.bytes))),
                     debug)

\* is_encrypted looking for the marker at the start of the subject only
is_encrypted_prefix(subject) == StartsWith(subject, ENCRYPTION_MARKER)

\* is_encrypted(subject)
is_encrypted(subject) == Contains(subject, ENCRYPTION_MARKER)

\* format_encrypted_subject(original_subject)
format_encrypted_subject(original_subject) ==
    ENCRYPTION_MARKER \o <<32>> \o original_subject

\* the UTF-8 encodings of the chars with the White_Space property
WhiteSpaceChars ==
    { <<9>>, <<10>>, <<11>>, <<12>>, <<13>>, <<32>>,
      <<194, 133>>, <<194, 160>>, <<225, 154, 128>>,
      <<226, 128, 168>>, <<226, 128, 169>>, <<226, 128, 175>>,
      <<226, 129, 159>>, <<227, 128, 128>> }
    \cup { <<226, 128, b>> : b \in 128..138 }

\* length of the whitespace char s starts with at index i (0: none)
WsLenAt(s, i) ==
    IF \E w \in WhiteSpaceChars : OccursAt(s, w, i)
    THEN Len(CHOOSE w \in WhiteSpaceChars : OccursAt(s, w, i))
    ELSE 0

\* length of the whitespace char s[1..n] ends with (0: none)
WsLenBefore(s, n) ==
    IF \E w \in WhiteSpaceChars : Len(w) <= n /\ OccursAt(s, w, n - Len(w) + 1)
    THEN Len(CHOOSE w \in WhiteSpaceChars :
                 Len(w) <= n /\ OccursAt(s, w, n - Len(w) + 1))
    ELSE 0

RECURSIVE TrimStartIndex(_, _)
TrimStartIndex(s, i) ==
    IF i > Len(s) \/ WsLenAt(s, i) = 0 THEN i
    ELSE TrimStartIndex(s, i + WsLenAt(s, i))

RECURSIVE TrimEndIndex(_, _, _)
TrimEndIndex(s, from, n) ==
    IF n < from \/ WsLenBefore(s, n) = 0 THEN n
    ELSE TrimEndIndex(s, from, n - WsLenBefore(s, n))

\* str::trim
trim(s) ==
    LET from == TrimStartIndex(s, 1)
    IN Slice(s, from, TrimEndIndex(s, from, Len(s)))

\* str::replace(pat, ""): the non-overlapping matches, left to right
RECURSIVE RemoveAllFrom(_, _, _)
RemoveAllFrom(s, pat, i) ==
    IF i > Len(s) THEN <<>>
    ELSE IF OccursAt(s, pat, i) THEN RemoveAllFrom(s, pat, i + Len(pat))
    ELSE <<s[i]>> \o RemoveAllFrom(s, pat, i + 1)

\* extract_original_subject without the trim
extract_untrimmed(encrypted_subject) ==
    RemoveAllFrom(encrypted_subject, ENCRYPTION_MARKER, 1)

\* extract_original_subject(encrypted_subject)
extract_original_subject(encrypted_subject) ==
    trim(RemoveAllFrom(encrypted_subject, ENCRYPTION_MARKER, 1))

\* format_encrypted_body()
format_encrypted_body ==
  <<84, 104, 105, 115, 32, 109, 101, 115, 115, 97, 103, 101, 32, 105,
    115, 32, 101, 110, 99, 114, 121, 112, 116, 101, 100, 32, 97, 110,
    100, 32, 99, 97, 110, 32, 111, 110, 108, 121, 32, 98, 101, 32,
    114, 101, 97, 100, 32, 117, 115, 105, 110, 103, 32, 116, 104, 101,
    32, 81, 45, 67, 108, 105, 101, 110, 116, 46, 10, 10, 80, 108,
    101, 97, 115, 101, 32, 117, 115, 101, 32, 121, 111, 117, 114, 32,
    113, 117, 97, 110, 116, 117, 109, 45, 115, 101, 99, 117, 114, 101,
    32, 101, 109, 97, 105, 108, 32, 99, 108, 105, 101, 110, 116, 32,
    116, 111, 32, 118, 105, 101, 119, 32, 116, 104, 105, 115, 32, 109,
    101, 115, 115, 97, 103, 101, 46>>

\* set_debug_mode(enabled): the new value of DEBUG_MODE
set_debug_mode(enabled) == enabled

(***************************************************************************)
(* serde_json for EncryptedMessage (serialize_encrypted_message,           *)
(* deserialize_encrypted_message).  JSON text is a byte string.            *)
(***************************************************************************)
HexDigit(v) == IF v < 10 THEN 48 + v ELSE 97 + (v - 10)

\* the value of a hex digit, -1 for any other byte
HexVal(c) ==
    IF c >= 48 /\ c <= 57 THEN c - 48
    ELSE IF c >= 97 /\ c <= 102 THEN c - 97 + 10
    ELSE IF c >= 65 /\ c <= 70 THEN c - 65 + 10 ELSE -1

\* the bytes serde_json writes for one byte of a string
JsonEscapeByte(b) ==
    IF b = 34 THEN <<92, 34>>
    ELSE IF b = 92 THEN <<92, 92>>
    ELSE IF b = 8 THEN <<92, 98>>
    ELSE IF b = 12 THEN <<92, 102>>
    ELSE IF b = 10 THEN <<92, 110>>
    ELSE IF b = 13 THEN <<92, 114>>
    ELSE IF b = 9 THEN <<92, 116>>
    ELSE IF b < 32 THEN <<92, 117, 48, 48, HexDigit(b \div 16), HexDigit(b % 16)>>
    ELSE <<b>>

RECURSIVE JsonEscapeFrom(_, _)
JsonEscapeFrom(str, i) ==
    IF i > Len(str) THEN <<>>
    ELSE JsonEscapeByte(str[i]) \o JsonEscapeFrom(str, i + 1)

\* a String as a JSON string literal
JsonString(str) ==
    <<34>> \o (IF \A i \in 1..Len(str) : JsonEscapeByte(str[i]) = <<str[i]>>
               THEN str ELSE JsonEscapeFrom(str, 1)) \o <<34>>

\* "ciphertext" and "encapsulated_key"
FIELD_CIPHERTEXT == <<99, 105, 112, 104, 101, 114, 116, 101, 120, 116>>
FIELD_ENCAPSULATED_KEY ==
    <<101, 110, 99, 97, 112, 115, 117, 108, 97, 116, 101, 100, 95, 107, 101, 121>>

\* serialize_encrypted_message writing the two Strings between quotes as
\* they are, without escaping
serialize_unescaped(encrypted_msg) ==
    <<123>> \o JsonString(FIELD_CIPHERTEXT) \o <<58, 34>>
        \o encrypted_msg.ciphertext \o <<34, 44>>
        \o JsonString(FIELD_ENCAPSULATED_KEY) \o <<58, 34>>
        \o encrypted_msg.encapsulated_key \o <<34, 125>>

\* serialize_encrypted_message(encrypted_msg): serde_json::to_string of the
\* derived Serialize, which cannot fail for a struct of two Strings
serialize_encrypted_message(encrypted_msg) ==
    <<123>> \o JsonString(FIELD_CIPHERTEXT) \o <<58>>
        \o JsonString(encrypted_msg.ciphertext) \o <<44>>
        \o JsonString(FIELD_ENCAPSULATED_KEY) \o <<58>>
        \o JsonString(encrypted_msg.encapsulated_key) \o <<125>>

JsonWs == {32, 9, 10, 13}

\* the first index from i on that holds no JSON whitespace (Len + 1: the end)
SkipWs(str, i) ==
    CHOOSE j \in i..(Len(str) + 1) :
        /\ j = Len(str) + 1 \/ str[j] \notin JsonWs
        /\ \A k \in i..(j - 1) : str[k] \in JsonWs

\* the number of backslashes that end right before index j, looking back to lo
BackslashRun(str, lo, j) ==
    CHOOSE k \in 0..(j - lo) :
        /\ \A m \in 1..k : str[j - m] = 92
        /\ k = j - lo \/ str[j - k - 1] # 92

\* the index of the quote closing the literal opened at index i (0: none)
StringEnd(str, i) ==
    LET ends == { j \in (i + 1)..Len(str) :
                    str[j] = 34 /\ BackslashRun(str, i + 1, j) % 2 = 0 }
    IN IF ends = {} THEN 0 ELSE CHOOSE j \in ends : \A k \in ends : j <= k

\* the UTF-8 bytes of a code point of the basic plane
Utf8Encode(cp) ==
    IF cp < 128 THEN <<cp>>
    ELSE IF cp < 2048 THEN <<192 + (cp \div 64), 128 + (cp % 64)>>
    ELSE <<224 + (cp \div 4096), 128 + ((cp \div 64) % 64), 128 + (cp % 64)>>

\* the escape sequence at index i of a literal's raw content, where raw[i]
\* is a backslash: [out, len], with out <<-1>> for an error (a bad escape;
\* a surrogate escape is refused)
JsonEscapeAt(raw, i) ==
    IF i = Len(raw) THEN [out |-> <<-1>>, len |-> 1]
    ELSE LET e == raw[i + 1]
         IN IF e \in {34, 92, 47} THEN [out |-> <<e>>, len |-> 2]
            ELSE IF e = 98 THEN [out |-> <<8>>, len |-> 2]
            ELSE IF e = 102 THEN [out |-> <<12>>, len |-> 2]
            ELSE IF e = 110 THEN [out |-> <<10>>, len |-> 2]
            ELSE IF e = 114 THEN [out |-> <<13>>, len |-> 2]
            ELSE IF e = 116 THEN [out |-> <<9>>, len |-> 2]
            ELSE IF e = 117 /\ i + 5 <= Len(raw)
                      /\ \A k \in 2..5 : HexVal(raw[i + k]) >= 0
            THEN LET cp == HexVal(raw[i + 2]) * 4096 + HexVal(raw[i + 3]) * 256
                             + HexVal(raw[i + 4]) * 16 + HexVal(raw[i + 5])
                 IN IF cp >= 55296 /\ cp <= 57343
                    THEN [out |-> <<-1>>, len |-> 6]
                    ELSE [out |-> Utf8Encode(cp), len |-> 6]
            ELSE [out |-> <<-1>>, len |-> 2]

\* the text of a string literal's raw content from index i on; -1 marks an
\* error (a raw control byte, a bad escape)
RECURSIVE JsonUnescapeFrom(_, _)
JsonUnescapeFrom(raw, i) ==
    IF i > Len(raw) THEN <<>>
    ELSE LET step == IF raw[i] < 32 THEN [out |-> <<-1>>, len |-> 1]
                     ELSE IF raw[i] # 92 THEN [out |-> <<raw[i]>>, len |-> 1]
                     ELSE JsonEscapeAt(raw, i)
         IN step.out \o JsonUnescapeFrom(raw, i + step.len)

\* the string literal at index i: [ok, val, next]
ParseString(str, i) ==
    IF i > Len(str) \/ str[i] # 34 \/ StringEnd(str, i) = 0
    THEN [ok |-> FALSE, val |-> <<>>, next |-> i]
    ELSE LET e == StringEnd(str, i)
             raw == Slice(str, i + 1, e - 1)
             plain == \A k \in 1..Len(raw) : raw[k] # 92 /\ raw[k] >= 32
             val == IF plain THEN raw ELSE JsonUnescapeFrom(raw, 1)
             ascii == \A k \in 1..Len(val) : val[k] < 128
         IN IF (\E k \in 1..Len(val) : val[k] = -1)
                   \/ (~ascii /\ ~from_utf8_ok(val))
            THEN [ok |-> FALSE, val |-> <<>>, next |-> i]
            ELSE [ok |-> TRUE, val |-> val, next |-> e + 1]

\* no member
BadMember == [ok |-> FALSE, key |-> <<>>, val |-> <<>>, next |-> 0]

\* a member whose value literal is val: next is the index of what follows it
MemberVal(str, key, val) ==
    IF ~val.ok THEN BadMember
    ELSE [ok |-> TRUE, key |-> key.val, val |-> val.val,
          next |-> SkipWs(str, val.next)]

\* a member whose key is followed at index colon
MemberColon(str, key, colon) ==
    IF colon > Len(str) \/ str[colon] # 58 THEN BadMember
    ELSE MemberVal(str, key, ParseString(str, SkipWs(str, colon + 1)))

\* a member whose key literal is key
MemberFrom(str, key) ==
    IF ~key.ok THEN BadMember ELSE MemberColon(str, key, SkipWs(str, key.next))

\* the member "key": "value" from index i: [ok, key, val, next]; the value
\* must be a string
ParseMember(str, i) == MemberFrom(str, ParseString(str, SkipWs(str, i)))

\* the members of an object from index i, where a key is expected, to the
\* closing brace: [ok, fields, next]
RECURSIVE ParseMembers(_, _, _)
MembersNext(str, fields, m) ==
    IF ~m.ok \/ m.next > Len(str) THEN [ok |-> FALSE, fields |-> <<>>, next |-> 0]
    ELSE IF str[m.next] = 125
    THEN [ok |-> TRUE, fields |-> Append(fields, <<m.key, m.val>>),
          next |-> m.next + 1]
    ELSE IF str[m.next] = 44
    THEN ParseMembers(str, m.next + 1, Append(fields, <<m.key, m.val>>))
    ELSE [ok |-> FALSE, fields |-> <<>>, next |-> 0]

ParseMembers(str, i, fields) == MembersNext(str, fields, ParseMember(str, i))

\* an object whose members m end with the input
ObjectEnd(str, m) ==
    IF m.ok /\ SkipWs(str, m.next) = Len(str) + 1
    THEN [ok |-> TRUE, fields |-> m.fields]
    ELSE [ok |-> FALSE, fields |-> <<>>]

\* an object whose brace is at index open and whose first token is at first
ObjectBody(str, open, first) ==
    IF first <= Len(str) /\ str[first] = 125
    THEN [ok |-> SkipWs(str, first + 1) = Len(str) + 1, fields |-> <<>>]
    ELSE ObjectEnd(str, ParseMembers(str, open + 1, <<>>))

\* an object whose brace is expected at index open
ObjectFrom(str, open) ==
    IF open > Len(str) \/ str[open] # 123
    THEN [ok |-> FALSE, fields |-> <<>>]
    ELSE ObjectBody(str, open, SkipWs(str, open + 1))

\* a whole JSON text that is one object with string members: [ok, fields]
ParseObject(str) == ObjectFrom(str, SkipWs(str, 1))

\* the indices of the members of a name
FieldsNamed(fields, name) == { k \in 1..Len(fields) : fields[k][1] = name }

\* the EncryptedMessage of a parsed object: the derived Deserialize wants
\* each of the two fields exactly once and skips members of other names
MessageOf(obj) ==
    IF obj.ok /\ Cardinality(FieldsNamed(obj.fields, FIELD_CIPHERTEXT)) = 1
              /\ Cardinality(FieldsNamed(obj.fields, FIELD_ENCAPSULATED_KEY)) = 1
    THEN [ok |-> TRUE,
          msg |-> [ciphertext |->
                       obj.fields[CHOOSE k \in FieldsNamed(obj.fields,
                                                           FIELD_CIPHERTEXT) :
                                      TRUE][2],
                   encapsulated_key |->
                       obj.fields[CHOOSE k \in FieldsNamed(obj.fields,
                                                           FIELD_ENCAPSULATED_KEY) :
                                      TRUE][2]]]
    ELSE [ok |-> FALSE, msg |-> NoMessage]

\* no EncryptedMessage
BadSeq == [ok |-> FALSE, msg |-> NoMessage]

\* the array form of the struct, which the derived Deserialize reads with
\* visit_seq: the bracket closing after the second element, then the end
SeqClose(str, a, b, close) ==
    IF close <= Len(str) /\ str[close] = 93
          /\ SkipWs(str, close + 1) = Len(str) + 1
    THEN [ok |-> TRUE, msg |-> [ciphertext |-> a.val, encapsulated_key |-> b.val]]
    ELSE BadSeq

\* the second element, a string literal
SeqSecond(str, a, b) ==
    IF ~b.ok THEN BadSeq ELSE SeqClose(str, a, b, SkipWs(str, b.next))

\* the comma after the first element
SeqComma(str, a, comma) ==
    IF comma > Len(str) \/ str[comma] # 44 THEN BadSeq
    ELSE SeqSecond(str, a, ParseString(str, SkipWs(str, comma + 1)))

\* the first element, a string literal
SeqFirst(str, a) ==
    IF ~a.ok THEN BadSeq ELSE SeqComma(str, a, SkipWs(str, a.next))

\* the EncryptedMessage of a JSON array whose bracket is at index open:
\* exactly two strings, ciphertext then encapsulated_key
MessageOfSeq(str, open) == SeqFirst(str, ParseString(str, SkipWs(str, open + 1)))

\* the first token of the value is an opening bracket
StartsArray(str, i) == i <= Len(str) /\ str[i] = 91

\* deserialize_encrypted_message(data): serde_json::from_str of the derived
\* Deserialize, which reads the struct from an object or from an array:
\* [ok, msg]
deserialize_encrypted_message(data) ==
    IF StartsArray(data, SkipWs(data, 1))
    THEN MessageOfSeq(data, SkipWs(data, 1))
    ELSE MessageOf(ParseObject(data))

(***************************************************************************)
(* The database (backend/src/db, backend/src/encryption/keys.rs).          *)
(* Option<T> is <<>> for None and <<x>> for Some(x).                       *)
(***************************************************************************)
\* the addresses alice@example.com, bob@example.com and carol@example.com
ALICE == <<97, 108, 105, 99, 101, 64, 101, 120, 97, 109, 112, 108, 101, 46, 99, 111, 109>>
BOB == <<98, 111, 98, 64, 101, 120, 97, 109, 112, 108, 101, 46, 99, 111, 109>>
CAROL == <<99, 97, 114, 111, 108, 64, 101, 120, 97, 109, 112, 108, 101, 46, 99, 111, 109>>

\* table users, which no modelled handler writes: alice has signed in with
\* Gmail access (a refresh token), bob without, carol has never signed in
Users == {ALICE, BOB}
users ==
    [u \in Users |->
        IF u = ALICE
        THEN [email |-> ALICE, name |-> <<(<<65, 108, 105, 99, 101>>)>>,
              session_token |-> "tA", refresh_token |-> <<"rA">>]
        ELSE [email |-> BOB, name |-> <<>>,
              session_token |-> "tB", refresh_token |-> <<>>]]

\* db::get_user_by_session(pool, session_token): Option<(email, name, refresh_token)>
get_user_by_session(session_token) ==
    IF \E u \in Users : users[u].session_token = session_token
    THEN LET u == CHOOSE v \in Users : users[v].session_token = session_token
         IN <<[email |-> users[u].email, name |-> users[u].name,
               refresh_token |-> users[u].refresh_token]>>
    ELSE <<>>

\* db::get_user_info(pool, email), whose definition the sources lack: the
\* row of table users for the address
get_user_info(email) ==
    IF email \in Users THEN <<[name |-> users[email].name]>> ELSE <<>>

\* the rows of user_keys with the given email
KeyRows(keys, email) == { row \in keys : row.email = email }

\* keys::store_keypair answering Ok without a row written
store_keypair_lost(keys, email, kp) ==
    [ok |-> email \in Users, keys |-> keys]

\* keys::store_keypair as a plain INSERT, without ON CONFLICT (email) and
\* without the UNIQUE constraint on email
store_keypair_insert(keys, email, kp) ==
    [ok |-> email \in Users,
     keys |-> IF email \in Users
              THEN keys \cup {[email |-> email, public_key |-> kp.public_key,
                               private_key |-> kp.secret_key]}
              ELSE keys]

\* keys::store_keypair(pool, email, keypair) on the table keys: an INSERT
\* with ON CONFLICT (email) DO UPDATE of the conflicting row, refused by
\* the foreign key user_keys.email -> users.email for an address without a
\* users row: [ok, keys]
store_keypair(keys, email, kp) ==
    IF email \notin Users THEN [ok |-> FALSE, keys |-> keys]
    ELSE IF KeyRows(keys, email) = {}
    THEN [ok |-> TRUE,
          keys |-> keys \cup {[email |-> email, public_key |-> kp.public_key,
                               private_key |-> kp.secret_key]}]
    ELSE [ok |-> TRUE,
          keys |-> { IF row.email = email
                     THEN [row EXCEPT !.public_key = kp.public_key,
                                      !.private_key = kp.secret_key]
                     ELSE row : row \in keys }]

\* the row fetch_optional returns: one of the rows the query selects
FetchOptional(rows) ==
    IF rows = {} THEN <<>> ELSE <<CHOOSE row \in rows : TRUE>>

\* keys::get_keypair(pool, email): Option<KeyPair>
get_keypair(keys, email) ==
    LET record == FetchOptional(KeyRows(keys, email))
    IN IF record = <<>> THEN <<>>
       ELSE <<[public_key |-> record[1].public_key,
               secret_key |-> record[1].private_key]>>

\* keys::get_public_key(pool, email): Option<String>
get_public_key(keys, email) ==
    LET record == FetchOptional(KeyRows(keys, email))
    IN IF record = <<>> THEN <<>> ELSE <<record[1].public_key>>

\* db::store_email without the raw_encrypted_content column in either INSERT
store_email_without_content(rows, sender_id, sender_email, recipient_email, subject, body, is_enc, raw_encrypted_content) ==
    Append(rows,
           [id |-> Len(rows) + 1, sender_id |-> sender_id,
            sender_email |-> sender_email, sender_name |-> <<>>,
            recipient_email |-> recipient_email, subject |-> subject,
            body |-> body, read_at |-> <<>>, gmail_id |-> <<>>,
            is_encrypted |-> is_enc, raw_encrypted_content |-> <<>>])

\* db::store_email writing the new raw_encrypted_content into every row
store_email_rewriting(rows, sender_id, sender_email, recipient_email, subject, body, is_enc, raw_encrypted_content) ==
    Append([i \in 1..Len(rows) |->
               [rows[i] EXCEPT !.raw_encrypted_content = raw_encrypted_content]],
           [id |-> Len(rows) + 1, sender_id |-> sender_id,
            sender_email |-> sender_email, sender_name |-> <<>>,
            recipient_email |-> recipient_email, subject |-> subject,
            body |-> body, read_at |-> <<>>, gmail_id |-> <<>>,
            is_encrypted |-> is_enc,
            raw_encrypted_content |-> raw_encrypted_content])

\* db::store_email(pool, sender_id, sender_email, recipient_email, subject,
\* body, is_encrypted, raw_encrypted_content): the table with the new row; the
\* fresh UUID is the row's index, which the caller reads as Len of the result
store_email(rows, sender_id, sender_email, recipient_email, subject, body, is_enc, raw_encrypted_content) ==
    Append(rows,
           [id |-> Len(rows) + 1, sender_id |-> sender_id,
            sender_email |-> sender_email, sender_name |-> <<>>,
            recipient_email |-> recipient_email, subject |-> subject,
            body |-> body, read_at |-> <<>>, gmail_id |-> <<>>,
            is_encrypted |-> is_enc,
            raw_encrypted_content |-> raw_encrypted_content])

\* the columns the SELECT of db::get_email names
GetEmailColumns ==
    {"id", "sender_id", "sender_email", "sender_name", "recipient_email",
     "subject", "body", "sent_at", "read_at", "gmail_id", "label_ids"}

\* db::get_email(pool, email_id): Option<Email>; row.try_get of a column the
\* SELECT does not name is an Err, which unwrap_or(false) and ok() swallow
get_email(rows, email_id) ==
    IF email_id \notin 1..Len(rows) THEN <<>>
    ELSE LET row == rows[email_id]
         IN <<[id |-> row.id, sender_id |-> row.sender_id,
               sender_email |-> row.sender_email,
               sender_name |-> row.sender_name,
               recipient_email |-> row.recipient_email,
               subject |-> row.subject, body |-> row.body,
               read_at |-> row.read_at, gmail_id |-> row.gmail_id,
               label_ids |-> <<>>,
               is_encrypted |->
                   IF "is_encrypted" \in GetEmailColumns
                   THEN row.is_encrypted ELSE FALSE,
               raw_encrypted_content |->
                   IF "raw_encrypted_content" \in GetEmailColumns
                   THEN row.raw_encrypted_content ELSE <<>>]>>

\* no response yet
NoResponse == [h |-> "none"]

(***************************************************************************)
(* The inputs the core is driven with                                      *)
(***************************************************************************)
NSeeds == 2     \* key pairs the entropy source can produce
NCoins == 2     \* encapsulation coins the entropy source can produce

Seeds == 1..NSeeds
Coins == 1..NCoins

\* "hello world"
P_HELLO == <<104, 101, 108, 108, 111, 32, 119, 111, 114, 108, 100>>
\* e-acute, one two-byte char
P_EACUTE == <<195, 169>>
\* 40 ASCII bytes: longer than the shared secret
P_ASCII40 == [i \in 1..40 |-> 97 + (i % 26)]
\* "a" and 15 e-acute: 31 bytes, byte 30 is inside the last char
P_MIXED31 == <<97>> \o Repeat(P_EACUTE, 15)
\* 16 e-acute: 32 bytes, byte 30 starts the last char
P_ACUTE32 == Repeat(P_EACUTE, 16)

Plaintexts == { <<>>, <<65>>, P_HELLO, P_EACUTE, P_ASCII40, P_MIXED31, P_ACUTE32 }

\* "!!!!": not base64
BAD_BASE64 == <<33, 33, 33, 33>>

\* the strings supplied as keys, by name
KeyNames == { <<"kp", s>> : s \in Seeds } \cup { <<"bad", 0>>, <<"short", 0>> }

\* a generated pair, a string that is not base64, a key of three bytes
NamedKeys ==
    [k \in KeyNames |->
        IF k[1] = "kp" THEN generate_keypair(k[2])
        ELSE IF k[1] = "bad"
        THEN [public_key |-> BAD_BASE64, secret_key |-> BAD_BASE64]
        ELSE [public_key |-> encode_config(<<1, 2, 3>>),
              secret_key |-> encode_config(<<1, 2, 3>>)]]

PublicKeyOf(k) == NamedKeys[k].public_key

SecretKeyOf(k) == NamedKeys[k].secret_key

\* what is done to an EncryptedMessage before it is handed to decrypt_message
Tamperings == { "none", "ek0", "ek32", "ek1087", "ek1089", "ekBad", "ctBad", "ek32ctBin" }

Tamper(m, t) ==
    LET ek == decode_config(m.encapsulated_key).bytes
    IN IF t = "none" THEN m
       ELSE IF t = "ek0" THEN [m EXCEPT !.encapsulated_key = <<>>]
       ELSE IF t = "ek32" THEN
           [m EXCEPT !.encapsulated_key = encode_config(Slice(ek, 1, 32))]
       ELSE IF t = "ek1087" THEN
           [m EXCEPT !.encapsulated_key = encode_config(Slice(ek, 1, Len(ek) - 1))]
       ELSE IF t = "ek1089" THEN
           [m EXCEPT !.encapsulated_key = encode_config(ek \o <<0>>)]
       ELSE IF t = "ekBad" THEN [m EXCEPT !.encapsulated_key = BAD_BASE64]
       ELSE IF t = "ctBad" THEN [m EXCEPT !.ciphertext = BAD_BASE64]
       ELSE [ciphertext |-> encode_config(<<255, 254>>),
             encapsulated_key |-> encode_config(Slice(ek, 1, 32))]

\* EncryptedMessage values whose Strings need escaping, beside those that
\* encrypt_message returns
SampleMessages ==
    {
      \* empty; a"b\c
      [ciphertext |-> <<>>,
       encapsulated_key |-> <<97, 34, 98, 92, 99>>],
      \* a"b\c; LF TAB 0x01 0x1F
      [ciphertext |-> <<97, 34, 98, 92, 99>>,
       encapsulated_key |-> <<10, 9, 1, 31>>],
      \* LF TAB 0x01 0x1F; e-acute / DEL euro
      [ciphertext |-> <<10, 9, 1, 31>>,
       encapsulated_key |-> <<195, 169, 47, 127, 226, 130, 172>>],
      \* e-acute / DEL euro; the six characters \u0041 and the two characters \n
      [ciphertext |-> <<195, 169, 47, 127, 226, 130, 172>>,
       encapsulated_key |-> <<92, 117, 48, 48, 52, 49, 92, 110>>],
      \* the six characters \u0041 and the two characters \n; empty
      [ciphertext |-> <<92, 117, 48, 48, 52, 49, 92, 110>>,
       encapsulated_key |-> <<>>]
    }

\* the texts handed to deserialize_encrypted_message, each with what it is:
\* a JSON object that has both fields as strings, a JSON array of exactly
\* two strings, or neither
WireTexts ==
    {
      \* (empty)
      [text |-> <<>>,
       object_with_both |-> FALSE, array_of_two |-> FALSE],
      \* null
      [text |-> <<110, 117, 108, 108>>,
       object_with_both |-> FALSE, array_of_two |-> FALSE],
      \* 42
      [text |-> <<52, 50>>,
       object_with_both |-> FALSE, array_of_two |-> FALSE],
      \* "abc"
      [text |-> <<34, 97, 98, 99, 34>>,
       object_with_both |-> FALSE, array_of_two |-> FALSE],
      \* {}
      [text |-> <<123, 125>>,
       object_with_both |-> FALSE, array_of_two |-> FALSE],
      \* {"ciphertext":"a"}
      [text |-> <<123, 34, 99, 105, 112, 104, 101, 114, 116, 101, 120, 116, 34, 58, 34, 97, 34, 125>>,
       object_with_both |-> FALSE, array_of_two |-> FALSE],
      \* {"encapsulated_key":"b"}
      [text |-> <<123, 34, 101, 110, 99, 97, 112, 115, 117, 108, 97, 116, 101, 100, 95, 107, 101, 121, 34, 58, 34, 98, 34, 125>>,
       object_with_both |-> FALSE, array_of_two |-> FALSE],
      \* {"ciphertext":null,"encapsulated_key":"b"}
      [text |-> <<123, 34, 99, 105, 112, 104, 101, 114, 116, 101, 120, 116, 34, 58, 110, 117, 108, 108, 44, 34, 101, 110, 99, 97, 112, 115, 117, 108, 97, 116, 101, 100, 95, 107, 101, 121, 34, 58, 34, 98, 34, 125>>,
       object_with_both |-> FALSE, array_of_two |-> FALSE],
      \* {"ciphertext":1,"encapsulated_key":"b"}
      [text |-> <<123, 34, 99, 105, 112, 104, 101, 114, 116, 101, 120, 116, 34, 58, 49, 44, 34, 101, 110, 99, 97, 112, 115, 117, 108, 97, 116, 101, 100, 95, 107, 101, 121, 34, 58, 34, 98, 34, 125>>,
       object_with_both |-> FALSE, array_of_two |-> FALSE],
      \* {"ciphertext":"\q","encapsulated_key":"b"}
      [text |-> <<123, 34, 99, 105, 112, 104, 101, 114, 116, 101, 120, 116, 34, 58, 34, 92, 113, 34, 44, 34, 101, 110, 99, 97, 112, 115, 117, 108, 97, 116, 101, 100, 95, 107, 101, 121, 34, 58, 34, 98, 34, 125>>,
       object_with_both |-> FALSE, array_of_two |-> FALSE],
      \* {"ciphertext":"a","encapsulated_key":"b"
      [text |-> <<123, 34, 99, 105, 112, 104, 101, 114, 116, 101, 120, 116, 34, 58, 34, 97, 34, 44, 34, 101, 110, 99, 97, 112, 115, 117, 108, 97, 116, 101, 100, 95, 107, 101, 121, 34, 58, 34, 98, 34>>,
       object_with_both |-> FALSE, array_of_two |-> FALSE],
      \* {"ciphertext":"a","encapsulated_key":"b"} x
      [text |-> <<123, 34, 99, 105, 112, 104, 101, 114, 116, 101, 120, 116, 34, 58, 34, 97, 34, 44, 34, 101, 110, 99, 97, 112, 115, 117, 108, 97, 116, 101, 100, 95, 107, 101, 121, 34, 58, 34, 98, 34, 125, 32, 120>>,
       object_with_both |-> FALSE, array_of_two |-> FALSE],
      \* []
      [text |-> <<91, 93>>,
       object_with_both |-> FALSE, array_of_two |-> FALSE],
      \* ["a"]
      [text |-> <<91, 34, 97, 34, 93>>,
       object_with_both |-> FALSE, array_of_two |-> FALSE],
      \* ["a",1]
      [text |-> <<91, 34, 97, 34, 44, 49, 93>>,
       object_with_both |-> FALSE, array_of_two |-> FALSE],
      \* ["a","b","c"]
      [text |-> <<91, 34, 97, 34, 44, 34, 98, 34, 44, 34, 99, 34, 93>>,
       object_with_both |-> FALSE, array_of_two |-> FALSE],
      \* ["a","b"]
      [text |-> <<91, 34, 97, 34, 44, 34, 98, 34, 93>>,
       object_with_both |-> FALSE, array_of_two |-> TRUE],
      \*  [ "a" , "b" ] 
      [text |-> <<32, 91, 32, 34, 97, 34, 32, 44, 32, 34, 98, 34, 32, 93, 32>>,
       object_with_both |-> FALSE, array_of_two |-> TRUE],
      \* {"ciphertext":"a","encapsulated_key":"b"}
      [text |-> <<123, 34, 99, 105, 112, 104, 101, 114, 116, 101, 120, 116, 34, 58, 34, 97, 34, 44, 34, 101, 110, 99, 97, 112, 115, 117, 108, 97, 116, 101, 100, 95, 107, 101, 121, 34, 58, 34, 98, 34, 125>>,
       object_with_both |-> TRUE, array_of_two |-> FALSE],
      \*  { "encapsulated_key" : "b" , "ciphertext" : "a" } 
      [text |-> <<32, 123, 32, 34, 101, 110, 99, 97, 112, 115, 117, 108, 97, 116, 101, 100, 95, 107, 101, 121, 34, 32, 58, 32, 34, 98, 34, 32, 44, 32, 34, 99, 105, 112, 104, 101, 114, 116, 101, 120, 116, 34, 32, 58, 32, 34, 97, 34, 32, 125, 32>>,
       object_with_both |-> TRUE, array_of_two |-> FALSE],
      \* {"ciphertext":"a","encapsulated_key":"b","extra":"c"}
      [text |-> <<123, 34, 99, 105, 112, 104, 101, 114, 116, 101, 120, 116, 34, 58, 34, 97, 34, 44, 34, 101, 110, 99, 97, 112, 115, 117, 108, 97, 116, 101, 100, 95, 107, 101, 121, 34, 58, 34, 98, 34, 44, 34, 101, 120, 116, 114, 97, 34, 58, 34, 99, 34, 125>>,
       object_with_both |-> TRUE, array_of_two |-> FALSE],
      \* {"ciphertext":"a","ciphertext":"c","encapsulated_key":"b"}
      [text |-> <<123, 34, 99, 105, 112, 104, 101, 114, 116, 101, 120, 116, 34, 58, 34, 97, 34, 44, 34, 99, 105, 112, 104, 101, 114, 116, 101, 120, 116, 34, 58, 34, 99, 34, 44, 34, 101, 110, 99, 97, 112, 115, 117, 108, 97, 116, 101, 100, 95, 107, 101, 121, 34, 58, 34, 98, 34, 125>>,
       object_with_both |-> TRUE, array_of_two |-> FALSE]
    }

\* " hi", "hi ", "a [Q-ENCRYPTED] b" and friends
Subjects ==
    { <<>>, <<104, 105>>, <<32, 104, 105>>, <<104, 105, 32>>, <<104, 32, 105>>,
      P_EACUTE, <<104, 105, 194, 160>>, <<9, 104, 105, 10>>,
      ENCRYPTION_MARKER, <<97, 32>> \o ENCRYPTION_MARKER \o <<32, 98>>,
      ENCRYPTION_MARKER \o <<104, 105>>, <<82, 101, 58, 32, 104, 105>>,
      \* "[Q-ENCRYPTED hi" and "[q-encrypted] hi"
      <<91, 81, 45, 69, 78, 67, 82, 89, 80, 84, 69, 68, 32, 104, 105>>,
      <<91, 113, 45, 101, 110, 99, 114, 121, 112, 116, 101, 100, 93, 32, 104, 105>> }

(***************************************************************************)
(* The core, driven one scenario at a time: the debug flag is set, a       *)
(* message is encrypted, and a message is decrypted or a subject framed.   *)
(***************************************************************************)
\* the worker threads of the server (HttpServer::run starts several), each
\* running at most one core call at a time
NThreads == 2
Threads == 1..NThreads
Idle == [pc |-> "idle"]

\* no call of get_connection_with_retry has been made
NoRetry ==
    [pc |-> "idle", retries |-> 0, attempts |-> <<>>, slept |-> 0,
     result |-> <<>>]

NoEnc == [op |-> "none"]
NoCall == [op |-> "none"]

CoreInit ==
    /\ DEBUG_MODE = TRUE
    /\ enc = NoEnc
    /\ call = NoCall
    /\ user_keys = {}
    /\ emails = <<>>
    /\ outbox = <<>>
    /\ cache = {}
    /\ reqs = EmptyBag
    /\ received = 0
    /\ response = NoResponse
    /\ threads = [t \in Threads |-> Idle]
    /\ retry = NoRetry

\* set_debug_mode(enabled)
SetDebugMode ==
    /\ call = NoCall /\ enc = NoEnc
    /\ \E enabled \in BOOLEAN : DEBUG_MODE' = set_debug_mode(enabled)
    /\ UNCHANGED <<enc, call>>

\* generate_keypair()
GenerateKeypair ==
    /\ call = NoCall /\ enc = NoEnc
    /\ \E seed \in Seeds :
         call' = [op |-> "generate_keypair", res |-> generate_keypair(seed)]
    /\ UNCHANGED <<DEBUG_MODE, enc>>

\* encrypt_message(p, key)
Encrypt ==
    /\ call = NoCall /\ enc = NoEnc
    /\ \E p \in Plaintexts, k \in KeyNames, coin \in Coins :
         enc' = [op |-> "encrypt", p |-> p, key |-> k, coin |-> coin,
                 debug |-> DEBUG_MODE,
                 res |-> encrypt_message(p, PublicKeyOf(k), coin, DEBUG_MODE)]
    /\ UNCHANGED <<DEBUG_MODE, call>>

\* decrypt_message(m, key) for the message just encrypted, possibly tampered
Decrypt ==
    /\ call = NoCall /\ enc # NoEnc /\ enc.res.kind = "Ok"
    /\ \E t \in Tamperings, k \in KeyNames :
         LET m == Tamper(enc.res.msg, t)
         IN call' = [op |-> "decrypt", msg |-> m, tamper |-> t, key |-> k,
                     debug |-> DEBUG_MODE,
                     res |-> decrypt_message(m, SecretKeyOf(k), DEBUG_MODE)]
    /\ UNCHANGED <<DEBUG_MODE, enc>>

\* encrypt_message(p, key) once more, for the plaintext and the key of the
\* encryption before, with a draw of its own
EncryptAgain ==
    /\ call = NoCall /\ enc # NoEnc /\ enc.res.kind = "Ok"
    /\ \E coin \in Coins :
         call' = [op |-> "encrypt_again", coin |-> coin, debug |-> DEBUG_MODE,
                  res |-> encrypt_message(enc.p, PublicKeyOf(enc.key), coin,
                                          DEBUG_MODE)]
    /\ UNCHANGED <<DEBUG_MODE, enc>>

\* serialize_encrypted_message(m), then deserialize_encrypted_message of the
\* text, for the message just encrypted or for a sample message
Serialize ==
    /\ call = NoCall
    /\ \E m \in IF enc = NoEnc THEN SampleMessages
                 ELSE IF enc.res.kind = "Ok" THEN {enc.res.msg} ELSE {} :
         call' = [op |-> "serialize", msg |-> m,
                  res |-> deserialize_encrypted_message(
                              serialize_encrypted_message(m))]
    /\ UNCHANGED <<DEBUG_MODE, enc>>

\* deserialize_encrypted_message(text)
Deserialize ==
    /\ call = NoCall /\ enc = NoEnc
    /\ \E t \in WireTexts :
         call' = [op |-> "deserialize", input |-> t,
                  res |-> deserialize_encrypted_message(t.text)]
    /\ UNCHANGED <<DEBUG_MODE, enc>>

\* format_encrypted_subject(s), then is_encrypted and extract_original_subject
Frame ==
    /\ call = NoCall /\ enc = NoEnc
    /\ \E s \in Subjects :
         LET f == format_encrypted_subject(s)
         IN call' = [op |-> "frame", subject |-> s, formatted |-> f,
                     marked |-> is_encrypted(f),
                     raw_marked |-> is_encrypted(s),
                     extracted |-> extract_original_subject(f)]
    /\ UNCHANGED <<DEBUG_MODE, enc>>

CoreNext ==
    \/ SetDebugMode /\ UNCHANGED <<serverVars, threadVars, cacheVars>>
    \/ GenerateKeypair /\ UNCHANGED <<serverVars, threadVars, cacheVars>>
    \/ Encrypt /\ UNCHANGED <<serverVars, threadVars, cacheVars>>
    \/ Decrypt /\ UNCHANGED <<serverVars, threadVars, cacheVars>>
    \/ EncryptAgain /\ UNCHANGED <<serverVars, threadVars, cacheVars>>
    \/ Serialize /\ UNCHANGED <<serverVars, threadVars, cacheVars>>
    \/ Deserialize /\ UNCHANGED <<serverVars, threadVars, cacheVars>>
    \/ Frame /\ UNCHANGED <<serverVars, threadVars, cacheVars>>

SpecCore == CoreInit /\ [][CoreNext]_vars

(***************************************************************************)
(* Properties of the core, checked under SpecCore                          *)
(***************************************************************************)
\* the last decrypt_message call was given the message just encrypted, untouched
DecryptedTheEncrypted ==
    /\ call.op = "decrypt"
    /\ enc.op = "encrypt" /\ enc.res.kind = "Ok"
    /\ call.msg = enc.res.msg

\* C1: round trip: decrypting what encrypt_message returned, with the secret
\* key of the pair whose public key encrypted it, returns Ok(plaintext)
C1_RoundTrip ==
    (DecryptedTheEncrypted /\ call.key[1] = "kp" /\ call.key = enc.key)
        => call.res = DecOk(enc.p)

\* C2: size validation: a decoded encapsulated_key of any length other than the
\* KEM's ciphertext size, with a well-formed secret key, is refused with
\* CiphertextSizeMismatch
C2_SizeValidation ==
    (/\ call.op = "decrypt"
     /\ call.key[1] = "kp"
     /\ decode_config(call.msg.encapsulated_key).ok
     /\ Len(decode_config(call.msg.encapsulated_key).bytes) # EXPECTED_KYBER_CIPHERTEXT_SIZE)
        => call.res = DecErr("CiphertextSizeMismatch")

\* C3: neither encrypt_message nor decrypt_message panics, whatever the input
C3_NeverPanics ==
    /\ enc.op = "encrypt" => enc.res.kind \in {"Ok", "Err"}
    /\ call.op = "decrypt" => call.res.kind \in {"Ok", "Err"}

\* C4: length preservation: under a valid public key encrypt_message succeeds
\* and its decoded ciphertext field has as many bytes as the plaintext
C4_LengthPreserved ==
    (enc.op = "encrypt" /\ enc.key[1] = "kp")
        => /\ enc.res.kind = "Ok"
           /\ decode_config(enc.res.msg.ciphertext).ok
           /\ Len(decode_config(enc.res.msg.ciphertext).bytes) = Len(enc.p)

\* a plaintext longer than the shared secret was encrypted
C4_Witness ==
    /\ enc.op = "encrypt" /\ enc.res.kind = "Ok"
    /\ Len(enc.p) > KYBER_SSBYTES
    /\ Len(decode_config(enc.res.msg.ciphertext).bytes) = Len(enc.p)

\* the last decrypt_message call used the secret key of another pair than the
\* one that encrypted the message
DecryptedWithWrongKey ==
    /\ DecryptedTheEncrypted
    /\ call.key[1] = "kp" /\ enc.key[1] = "kp" /\ call.key # enc.key

\* the secret the encryption drew and the secret the last decryption recovered
EncSecret == encapsulate(decode_config(PublicKeyOf(enc.key)).bytes, enc.coin).ss
DecSecret ==
    decapsulate(decode_config(call.msg.encapsulated_key).bytes,
                decode_config(SecretKeyOf(call.key)).bytes)

\* the two secrets differ at a position the plaintext's keystream uses
SecretsDifferWithin(n) ==
    \E j \in 1..KYBER_SSBYTES : j <= n /\ EncSecret[j] # DecSecret[j]

\* C5 as stated: with the wrong secret key decrypt_message fails with
\* Utf8DecodeError or returns a text other than the plaintext
C5_WrongKeyNeverPlain ==
    (DecryptedWithWrongKey /\ EncSecret # DecSecret)
        => \/ call.res = DecErr("Utf8DecodeError")
           \/ (call.res.kind = "Ok" /\ call.res.val # enc.p)

\* C5 amended: when the secrets differ at a position the plaintext uses, the
\* wrong key yields no error but Utf8DecodeError and no text equal to the
\* plaintext
C5_WrongKeyAmended ==
    (DecryptedWithWrongKey /\ SecretsDifferWithin(Len(enc.p)))
        => /\ call.res.kind = "Err" => call.res.err = "Utf8DecodeError"
           /\ call.res.kind = "Ok" => call.res.val # enc.p

\* a wrong-key decryption that returned a wrong text
C5_Witness ==
    /\ DecryptedWithWrongKey /\ SecretsDifferWithin(Len(enc.p))
    /\ call.res.kind = "Ok" /\ call.res.val # enc.p

\* C6 as stated: extracting the subject from a formatted subject returns it
C6_FramingRoundTrip ==
    call.op = "frame" => call.extracted = call.subject

\* C6 amended: it does for a subject that neither contains the marker nor
\* starts or ends with whitespace
C6_FramingAmended ==
    (/\ call.op = "frame"
     /\ ~Contains(call.subject, ENCRYPTION_MARKER)
     /\ WsLenAt(call.subject, 1) = 0
     /\ WsLenBefore(call.subject, Len(call.subject)) = 0)
        => call.extracted = call.subject

\* "Re: hi" was formatted and extracted
C6_Witness ==
    /\ call.op = "frame"
    /\ call.subject = <<82, 101, 58, 32, 104, 105>>
    /\ call.formatted = ENCRYPTION_MARKER \o <<32, 82, 101, 58, 32, 104, 105>>
    /\ call.extracted = call.subject


(***************************************************************************)
(* The request handlers (backend/src/handlers/email.rs).  A request is     *)
(* handled in steps that end where the handler awaits a write or a remote  *)
(* call, so that the steps of concurrent requests interleave.              *)
(***************************************************************************)
MaxRequests == 2

Recipients == {BOB, CAROL}
\* the KEM randomness of the sends
SendCoins == {1}
\* "hi"
S_HI == <<104, 105>>

\* auth::FRONTEND_URL
FRONTEND_URL ==
    <<104, 116, 116, 112, 58, 47, 47, 108, 111, 99, 97, 108, 104, 111, 115,
      116, 58, 51, 48, 48, 48>>

\* the text of an email id (a UUID in the program, a digit here)
IdText(email_id) == <<48 + email_id>>

\* an HTTP response of request r; status 0: the handler panicked and the
\* connection was closed without a response
Respond(r, status, error, message, email) ==
    [h |-> r.h, status |-> status, error |-> error, message |-> message,
     email |-> email, req |-> r]

\* the requests in flight
InFlight == BagToSet(reqs)

\* a request is accepted: the server has accepted fewer than MaxRequests
Accept ==
    /\ received < MaxRequests
    /\ received' = received + 1

\* the accepted request r waits at its first write
Start(r) == reqs' = reqs (+) SetToBag({r}) /\ UNCHANGED response

\* the accepted request is answered, and goes on all the same (no return)
AnswerAndGoOn(resp) == reqs' = reqs (+) SetToBag({resp.req}) /\ response' = resp

\* the accepted request r is answered at once
Answer(resp) == UNCHANGED reqs /\ response' = resp

\* the request r in flight goes on as r2
Continue(r, r2) ==
    reqs' = (reqs (-) SetToBag({r})) (+) SetToBag({r2}) /\ UNCHANGED response

\* the request r in flight ends with the response resp
Finish(r, resp) == reqs' = reqs (-) SetToBag({r}) /\ response' = resp

\* send_email: the RFC 822 text handed to send_gmail_message, base64 of
\* "From: ..\r\nTo: ..\r\nSubject: ..\r\nContent-Type: ..\r\nMIME-Version: 1.0
\* \r\n\r\n{body}"
mime_message(from, to, subject, body) ==
    encode_config(
           <<70, 114, 111, 109, 58, 32>> \o from
               \o <<13, 10, 84, 111, 58, 32>> \o to
               \o <<13, 10, 83, 117, 98, 106, 101, 99, 116, 58, 32>>
               \o subject
               \o <<13, 10, 67, 111, 110, 116, 101, 110, 116, 45, 84, 121, 112,
                    101, 58, 32, 116, 101, 120, 116, 47, 112, 108, 97, 105, 110,
                    59, 32, 99, 104, 97, 114, 115, 101, 116, 61, 85, 84, 70, 45,
                    56, 13, 10, 77, 73, 77, 69, 45, 86, 101, 114, 115, 105, 111,
                    110, 58, 32, 49, 46, 48, 13, 10, 13, 10>>
               \o body)

\* the notification send_email hands to Gmail (format! and encode_config)
raw_message(email, recipient_email, sender_name, email_id) ==
    LET view_link == FRONTEND_URL \o <<47, 63, 118, 105, 101, 119, 61>>
                        \o IdText(email_id)
        placeholder_subject ==
            <<91, 81, 117, 97, 110, 116, 32, 67, 108, 105, 101, 110, 116, 93,
              32, 78, 101, 119, 32, 115, 101, 99, 117, 114, 101, 32, 109, 101,
              115, 115, 97, 103, 101, 32, 102, 114, 111, 109, 32>>
                \o sender_name
        placeholder_body ==
            <<89, 111, 117, 39, 118, 101, 32, 114, 101, 99, 101, 105, 118, 101,
              100, 32, 97, 32, 110, 101, 119, 32, 109, 101, 115, 115, 97, 103,
              101, 32, 102, 114, 111, 109, 32, 42, 42>>
                \o sender_name
                \o <<42, 42, 32, 118, 105, 97, 32, 81, 117, 97, 110, 116, 32, 67,
                     108, 105, 101, 110, 116, 46, 10, 10, 84, 111, 32, 118, 105,
                     101, 119, 32, 116, 104, 101, 32, 102, 117, 108, 108, 32,
                     109, 101, 115, 115, 97, 103, 101, 44, 32, 112, 108, 101,
                     97, 115, 101, 32, 99, 108, 105, 99, 107, 32, 104, 101, 114,
                     101, 58, 32, 91, 81, 117, 97, 110, 116, 32, 67, 108, 105,
                     101, 110, 116, 93, 40>>
                \o view_link
                \o <<41, 10, 10, 84, 104, 105, 115, 32, 105, 115, 32, 97, 32, 110,
                     111, 116, 105, 102, 105, 99, 97, 116, 105, 111, 110, 32,
                     101, 109, 97, 105, 108, 46, 32, 84, 104, 101, 32, 97, 99,
                     116, 117, 97, 108, 32, 109, 101, 115, 115, 97, 103, 101,
                     32, 99, 111, 110, 116, 101, 110, 116, 32, 105, 115, 32, 115,
                     101, 99, 117, 114, 101, 108, 121, 32, 115, 116, 111, 114,
                     101, 100, 32, 105, 110, 32, 81, 117, 97, 110, 116, 32, 67,
                     108, 105, 101, 110, 116, 46>>
    IN mime_message(email, recipient_email, placeholder_subject,
                    placeholder_body)

\* RedisCache::cache_email(user_id, email_id, email): SET email:{user}:{id}
cache_email(entries, user_id, email_id, email) ==
    { e \in entries : ~(e.user_id = user_id /\ e.email_id = email_id) }
        \cup {[user_id |-> user_id, email_id |-> email_id, email |-> email]}

\* RedisCache::update_email_lists(user_id, email, is_sent): no modelled
\* handler fills the page lists, so only the single email is cached
update_email_lists(entries, user_id, email) ==
    cache_email(entries, user_id, email.id, email)

(***************************************************************************)
(* The keys, the serialized messages and the notifications are strings of  *)
(* hundreds to thousands of bytes.  The tables, the requests and the       *)
(* responses hold such a string as its index in StringPool: Ref(str) is    *)
(* the index of a string, Val(i) the string at an index.                   *)
(***************************************************************************)
RECURSIVE SetToSeq(_)
SetToSeq(S) ==
    IF S = {} THEN <<>>
    ELSE LET x == CHOOSE y \in S : TRUE IN <<x>> \o SetToSeq(S \ {x})

PooledStrings ==
    { generate_keypair(s).public_key : s \in Seeds }
        \cup { generate_keypair(s).secret_key : s \in Seeds }
        \cup { serialize_encrypted_message(
                   encrypt_message(P_HELLO, generate_keypair(s).public_key, c,
                                   TRUE).msg) : s \in Seeds, c \in SendCoins }
        \cup { raw_message(u, t, nm, i) :
                   u \in Users, t \in Recipients,
                   nm \in Users \cup { users[v].name[1] :
                                         v \in { w \in Users : users[w].name # <<>> } },
                   i \in 1..MaxRequests }

StringPool == SetToSeq(PooledStrings)

Ref(str) == CHOOSE i \in 1..Len(StringPool) : StringPool[i] = str

Val(i) == StringPool[i]

RefKeyPair(kp) ==
    [public_key |-> Ref(kp.public_key), secret_key |-> Ref(kp.secret_key)]

\* send_email from the request to its first write: the session check, the
\* lookup of the recipient's public key, the encryption of the body
SendEmailStart ==
    \E session_token \in {"tA", "tB"}, recipient_email \in Recipients,
       encrypt \in {<<>>, <<TRUE>>}, seed \in Seeds, coin \in SendCoins,
       db_ok \in BOOLEAN :
        /\ Accept
        /\ LET email_req == [recipient_email |-> recipient_email,
                             subject |-> S_HI, body |-> P_HELLO,
                             encrypt |-> encrypt]
               user == get_user_by_session(session_token)
               should_encrypt == IF encrypt = <<>> THEN FALSE ELSE encrypt[1]
               r == [h |-> "send_email", pc |-> "store_email",
                     session_token |-> session_token, email_req |-> email_req,
                     email |-> IF user = <<>> THEN <<>> ELSE user[1].email,
                     should_encrypt |-> should_encrypt,
                     public_key |-> <<>>, coin |-> <<>>, keypair |-> <<>>,
                     key_stored |-> FALSE, raw_encrypted_content |-> <<>>,
                     email_id |-> 0, gmail_id |-> <<>>]
               public_key == get_public_key(user_keys, recipient_email)
               encrypted == encrypt_message(email_req.body, Val(public_key[1]),
                                            coin, DEBUG_MODE)
           IN IF user = <<>> \/ user[1].refresh_token = <<>>
              THEN Answer(Respond(r, 401, "Not authenticated", "", <<>>))
              ELSE IF ~should_encrypt THEN Start(r)
              ELSE IF ~db_ok
              THEN Answer(Respond(r, 500, "Failed to get recipient's public key",
                                  "", <<>>))
              ELSE IF public_key = <<>>
              THEN Start([r EXCEPT !.pc = "store_keypair",
                                   !.keypair =
                                       <<RefKeyPair(generate_keypair(seed))>>])
              ELSE IF encrypted.kind = "Err"
              THEN Answer(Respond(r, 500, "Failed to encrypt message", "", <<>>))
              ELSE IF encrypted.kind = "Panic"
              THEN Answer(Respond(r, 0, "", "", <<>>))
              ELSE Start([r EXCEPT !.public_key = public_key,
                                   !.coin = <<coin>>,
                                   !.raw_encrypted_content =
                                       <<Ref(serialize_encrypted_message(
                                                 encrypted.msg))>>])
        /\ UNCHANGED <<user_keys, emails, outbox, cache, coreVars>>

\* send_email, no public key found: store the generated pair for the
\* recipient, log a failure, and go on to send without encryption
SendEmailStoreKeypair ==
    \E r \in InFlight :
        /\ r.h = "send_email" /\ r.pc = "store_keypair"
        /\ LET stored == store_keypair(user_keys, r.email_req.recipient_email,
                                       r.keypair[1])
           IN /\ user_keys' = stored.keys
              /\ Continue(r, [r EXCEPT !.pc = "store_email",
                                       !.key_stored = stored.ok])
        /\ UNCHANGED <<emails, outbox, cache, received, coreVars>>

\* send_email: db::store_email of the original subject and body
SendEmailStoreEmail ==
    \E r \in InFlight, db_ok \in BOOLEAN :
        /\ r.h = "send_email" /\ r.pc = "store_email"
        /\ IF db_ok
           THEN /\ emails' = store_email(emails, r.email, r.email,
                                         r.email_req.recipient_email,
                                         r.email_req.subject, r.email_req.body,
                                         r.should_encrypt,
                                         r.raw_encrypted_content)
                /\ Continue(r, [r EXCEPT !.pc = "notify",
                                         !.email_id = Len(emails')])
           ELSE /\ UNCHANGED emails
                /\ Finish(r, Respond(r, 500, "Failed to store email in database",
                                     "", <<>>))
        /\ UNCHANGED <<user_keys, outbox, cache, received, coreVars>>

\* send_email: the notification with the view link goes to Gmail
SendEmailNotify ==
    \E r \in InFlight, gmail \in {"ok", "token_err", "send_err"} :
        /\ r.h = "send_email" /\ r.pc = "notify"
        /\ LET user_info == get_user_info(r.email)
               sender_name == IF user_info # <<>> /\ user_info[1].name # <<>>
                              THEN user_info[1].name[1] ELSE r.email
               raw == raw_message(r.email, r.email_req.recipient_email,
                                  sender_name, r.email_id)
           IN IF gmail = "token_err"
              THEN /\ UNCHANGED outbox
                   /\ Finish(r, Respond(r, 500, "Failed to get Gmail token", "", <<>>))
              ELSE IF gmail = "send_err"
              THEN /\ UNCHANGED outbox
                   /\ Finish(r, Respond(r, 500, "Failed to send notification email",
                                        "", <<>>))
              ELSE /\ outbox' = Append(outbox, [user_id |-> r.email, raw |-> Ref(raw)])
                   /\ Continue(r, [r EXCEPT !.pc = "cache",
                                            !.gmail_id = <<Len(outbox) + 1>>])
        /\ UNCHANGED <<user_keys, emails, cache, received, coreVars>>

\* send_email: the Email object is cached (a failure is logged) and returned
SendEmailUpdateCache ==
    \E r \in InFlight, redis_ok \in BOOLEAN :
        /\ r.h = "send_email" /\ r.pc = "cache"
        /\ LET email_obj ==
                   [id |-> r.email_id, sender_id |-> r.email,
                    sender_email |-> r.email, sender_name |-> <<>>,
                    recipient_email |-> r.email_req.recipient_email,
                    subject |-> r.email_req.subject, body |-> r.email_req.body,
                    read_at |-> <<>>, gmail_id |-> r.gmail_id,
                    label_ids |-> <<(<<"SENT">>)>>,
                    is_encrypted |-> r.should_encrypt,
                    raw_encrypted_content |-> r.raw_encrypted_content]
           IN /\ cache' = IF redis_ok
                          THEN update_email_lists(cache, r.email, email_obj)
                          ELSE cache
              /\ Finish(r, Respond(r, 200, "", "Email sent successfully",
                                   <<email_obj>>))
        /\ UNCHANGED <<user_keys, emails, outbox, received, coreVars>>

\* generate_encryption_keys from the request to its write: the session
\* check and the look for an existing pair
GenerateKeysStart ==
    \E session_token \in {"tB", "bad"}, seed \in Seeds, db_ok \in BOOLEAN :
        /\ Accept
        /\ LET user == get_user_by_session(session_token)
               r == [h |-> "generate_encryption_keys", pc |-> "store_keypair",
                     session_token |-> session_token,
                     email |-> IF user = <<>> THEN <<>> ELSE user[1].email,
                     keypair |-> <<>>]
           IN IF user = <<>>
              THEN Answer(Respond(r, 401, "Not authenticated", "", <<>>))
              ELSE IF ~db_ok
              THEN Answer(Respond(r, 500, "Failed to check for existing keys",
                                  "", <<>>))
              ELSE IF get_keypair(user_keys, r.email) # <<>>
              THEN Answer(Respond(r, 200, "", "Encryption keys already exist",
                                  <<>>))
              ELSE Start([r EXCEPT !.keypair =
                                       <<RefKeyPair(generate_keypair(seed))>>])
        /\ UNCHANGED <<user_keys, emails, outbox, cache, coreVars>>

\* generate_encryption_keys: store the generated pair
GenerateKeysStore ==
    \E r \in InFlight, db_ok \in BOOLEAN :
        /\ r.h = "generate_encryption_keys" /\ r.pc = "store_keypair"
        /\ LET stored == store_keypair(user_keys, r.email, r.keypair[1])
           IN IF db_ok /\ stored.ok
              THEN /\ user_keys' = stored.keys
                   /\ Finish(r, Respond(r, 200, "",
                                        "Encryption keys generated successfully",
                                        <<>>))
              ELSE /\ UNCHANGED user_keys
                   /\ Finish(r, Respond(r, 500, "Failed to store encryption keys",
                                        "", <<>>))
        /\ UNCHANGED <<emails, outbox, cache, received, coreVars>>

\* decrypt_email, which writes nothing: the session check, db::get_email,
\* the caller's key pair, deserialize, decrypt, the subject without marker.
\* db_ok, stored_keypair and row record whether the database answered and
\* what the tables held, for the properties.
DecryptEmail ==
    \E session_token \in {"tA", "tB"}, email_id \in 0..Len(emails),
       db_ok \in BOOLEAN, keys_ok \in BOOLEAN :
        /\ Accept
        /\ LET user == get_user_by_session(session_token)
               email == IF user = <<>> THEN <<>> ELSE user[1].email
               r == [h |-> "decrypt_email",
                     session_token |-> session_token, email |-> email,
                     email_id |-> email_id, db_ok |-> db_ok,
                     stored_keypair |-> get_keypair(user_keys, email),
                     row |-> IF email_id \in 1..Len(emails)
                             THEN <<emails[email_id]>> ELSE <<>>]
               found == get_email(emails, email_id)
               email_obj == found[1]
               own_keys == get_keypair(user_keys, email)
               parsed == deserialize_encrypted_message(
                             Val(email_obj.raw_encrypted_content[1]))
               decrypted == decrypt_message(parsed.msg,
                                            Val(own_keys[1].secret_key),
                                            DEBUG_MODE)
               BadRequest(error) == Answer(Respond(r, 400, error, "", <<>>))
               ServerError(error) == Answer(Respond(r, 500, error, "", <<>>))
           IN IF user = <<>>
              THEN Answer(Respond(r, 401, "Not authenticated", "", <<>>))
              ELSE IF ~db_ok THEN ServerError("Database error")
              ELSE IF found = <<>>
              THEN Answer(Respond(r, 404, "Email not found", "", <<>>))
              ELSE IF ~email_obj.is_encrypted
              THEN BadRequest("Email is not encrypted")
              ELSE IF email_obj.raw_encrypted_content = <<>>
              THEN BadRequest("Email is marked as encrypted but has no encrypted content")
              ELSE IF ~keys_ok THEN ServerError("Failed to get encryption keys")
              ELSE IF own_keys = <<>> THEN BadRequest("No encryption keys found")
              ELSE IF ~parsed.ok THEN ServerError("Failed to parse encrypted message")
              ELSE IF decrypted.kind = "Err" THEN ServerError("Failed to decrypt message")
              ELSE IF decrypted.kind = "Panic"
              THEN Answer(Respond(r, 0, "", "", <<>>))
              ELSE Answer(Respond(r, 200, "", "",
                              <<[email_obj EXCEPT
                                    !.subject = extract_original_subject(
                                                    email_obj.subject),
                                    !.body = decrypted.val]>>))
        /\ UNCHANGED <<user_keys, emails, outbox, cache, coreVars>>

\* handlers::get_email for the id of a database row (a UUID, so neither the
\* "gmail_" cache lookup nor the Gmail lookup applies): db::get_email, the
\* sender-or-recipient check, read_at set on the returned copy only
GetEmail ==
    \E session_token \in {"tA", "tB"}, email_id \in 0..Len(emails),
       db_ok \in BOOLEAN :
        /\ Accept
        /\ LET user == get_user_by_session(session_token)
               email == IF user = <<>> THEN <<>> ELSE user[1].email
               r == [h |-> "get_email", session_token |-> session_token,
                     email |-> email, email_id |-> email_id, db_ok |-> db_ok]
               found == get_email(emails, email_id)
               found_email == found[1]
               updated_email == [found_email EXCEPT !.read_at = <<"now">>]
               Cached(e) == IF e.gmail_id # <<>>
                            THEN cache_email(cache, email, e.gmail_id[1], e)
                            ELSE cache
           IN IF user = <<>>
              THEN /\ UNCHANGED cache
                   /\ Answer(Respond(r, 401, "Not authenticated", "", <<>>))
              ELSE IF ~db_ok
              THEN /\ UNCHANGED cache
                   /\ Answer(Respond(r, 500, "Failed to fetch email", "", <<>>))
              ELSE IF found = <<>>
              THEN /\ UNCHANGED cache
                   /\ Answer(Respond(r, 404, "Email not found", "", <<>>))
              ELSE IF ~(found_email.sender_email = email
                          \/ found_email.recipient_email = email)
              THEN /\ UNCHANGED cache
                   /\ Answer(Respond(r, 403,
                                     "You don't have permission to view this email",
                                     "", <<>>))
              ELSE IF found_email.recipient_email = email
                        /\ found_email.read_at = <<>>
              THEN /\ cache' = Cached(updated_email)
                   /\ Answer(Respond(r, 200, "", "", <<updated_email>>))
              ELSE /\ cache' = Cached(found_email)
                   /\ Answer(Respond(r, 200, "", "", <<found_email>>))
        /\ UNCHANGED <<user_keys, emails, outbox, coreVars>>

\* handlers::mark_email_as_read: db::get_email, the recipient check, read_at
\* set on the returned copy, which is cached when the row has a gmail_id
MarkEmailAsRead ==
    \E session_token \in {"tA", "tB"}, email_id \in 0..Len(emails),
       db_ok \in BOOLEAN :
        /\ Accept
        /\ LET user == get_user_by_session(session_token)
               email == IF user = <<>> THEN <<>> ELSE user[1].email
               r == [h |-> "mark_email_as_read", session_token |-> session_token,
                     email |-> email, email_id |-> email_id, db_ok |-> db_ok]
               found == get_email(emails, email_id)
               found_email == found[1]
               updated_email == [found_email EXCEPT !.read_at = <<"now">>]
           IN IF user = <<>>
              THEN /\ UNCHANGED cache
                   /\ Answer(Respond(r, 401, "Not authenticated", "", <<>>))
              ELSE IF ~db_ok
              THEN /\ UNCHANGED cache
                   /\ Answer(Respond(r, 500, "Internal server error", "", <<>>))
              ELSE IF found = <<>>
              THEN /\ UNCHANGED cache
                   /\ Answer(Respond(r, 404, "Email not found", "", <<>>))
              ELSE IF found_email.recipient_email # email
              THEN /\ UNCHANGED cache
                   /\ Answer(Respond(r, 403,
                                 "You can only mark emails where you are the recipient as read",
                                 "", <<>>))
              ELSE IF found_email.read_at # <<>>
              THEN /\ UNCHANGED cache
                   /\ Answer(Respond(r, 200, "", "Email already marked as read",
                                     <<found_email>>))
              ELSE /\ cache' = IF updated_email.gmail_id # <<>>
                               THEN cache_email(cache, email,
                                                updated_email.gmail_id[1],
                                                updated_email)
                               ELSE cache
                   /\ Answer(Respond(r, 200, "", "Email marked as read",
                                     <<updated_email>>))
        /\ UNCHANGED <<user_keys, emails, outbox, coreVars>>

\* handlers::refresh_emails: the session and refresh-token checks, the Gmail
\* token; the messages it lists go to the page lists and the last-sync stamp
\* of the cache, which are no part of `cache` (the single-email entries), and
\* to no table
RefreshEmails ==
    \E session_token \in {"tA", "tB"}, gmail \in {"ok", "token_err"} :
        /\ Accept
        /\ LET user == get_user_by_session(session_token)
               email == IF user = <<>> THEN <<>> ELSE user[1].email
               r == [h |-> "refresh_emails", session_token |-> session_token,
                     email |-> email]
           IN IF user = <<>>
              THEN Answer(Respond(r, 401, "Not authenticated", "", <<>>))
              ELSE IF user[1].refresh_token = <<>>
              THEN Answer(Respond(r, 400, "No Gmail refresh token found", "",
                                  <<>>))
              ELSE IF gmail = "token_err"
              THEN Answer(Respond(r, 500, "Failed to get Gmail token", "", <<>>))
              ELSE Answer(Respond(r, 200, "", "Emails refreshed successfully",
                                  <<>>))
        /\ UNCHANGED <<user_keys, emails, outbox, cache, coreVars>>

\* toggle_quantum_debug (POST /api/debug/quantum): the session cookie, the
\* user of the session, "enabled" of the body (true when it is missing or no
\* boolean), set_debug_mode
ToggleQuantumDebug ==
    \E cookie \in {<<>>, <<"tA">>, <<"tB">>, <<"bad">>},
       body \in {<<>>, <<TRUE>>, <<FALSE>>}, db_ok \in BOOLEAN :
        /\ Accept
        /\ LET user == IF cookie = <<>> \/ ~db_ok THEN <<>>
                       ELSE get_user_by_session(cookie[1])
               enabled == IF body = <<>> THEN TRUE ELSE body[1]
               r == [h |-> "toggle_quantum_debug", cookie |-> cookie,
                     email |-> IF user = <<>> THEN <<>> ELSE user[1].email,
                     enabled |-> enabled]
           IN IF user = <<>>
              THEN /\ UNCHANGED DEBUG_MODE
                   /\ Answer(Respond(r, 401, "Not authenticated", "", <<>>))
              ELSE /\ DEBUG_MODE' = set_debug_mode(enabled)
                   /\ Answer(Respond(r, 200, "",
                                     IF enabled
                                     THEN "Quantum debug mode set to: enabled"
                                     ELSE "Quantum debug mode set to: disabled",
                                     <<>>))
        /\ UNCHANGED <<user_keys, emails, outbox, cache, enc, call>>

\* the server starts on its database, where user_keys is empty or holds a
\* pair that generate_encryption_keys stored for bob in an earlier run
Init ==
    /\ DEBUG_MODE = TRUE
    /\ enc = NoEnc
    /\ call = NoCall
    /\ \E keys \in {{}} \cup { store_keypair({}, BOB,
                                               RefKeyPair(generate_keypair(s))).keys :
                                   s \in Seeds } :
           user_keys = keys
    /\ emails = <<>>
    /\ outbox = <<>>
    /\ cache = {}
    /\ reqs = EmptyBag
    /\ received = 0
    /\ response = NoResponse
    /\ threads = [t \in Threads |-> Idle]
    /\ retry = NoRetry

Next ==
    \/ SendEmailStart /\ UNCHANGED <<threadVars, cacheVars>>
    \/ SendEmailStoreKeypair /\ UNCHANGED <<threadVars, cacheVars>>
    \/ SendEmailStoreEmail /\ UNCHANGED <<threadVars, cacheVars>>
    \/ SendEmailNotify /\ UNCHANGED <<threadVars, cacheVars>>
    \/ SendEmailUpdateCache /\ UNCHANGED <<threadVars, cacheVars>>
    \/ GenerateKeysStart /\ UNCHANGED <<threadVars, cacheVars>>
    \/ GenerateKeysStore /\ UNCHANGED <<threadVars, cacheVars>>
    \/ DecryptEmail /\ UNCHANGED <<threadVars, cacheVars>>
    \/ GetEmail /\ UNCHANGED <<threadVars, cacheVars>>
    \/ MarkEmailAsRead /\ UNCHANGED <<threadVars, cacheVars>>
    \/ RefreshEmails /\ UNCHANGED <<threadVars, cacheVars>>
    \/ ToggleQuantumDebug /\ UNCHANGED <<threadVars, cacheVars>>

Spec == Init /\ [][Next]_vars

(***************************************************************************)
(* Properties of the handlers                                              *)
(***************************************************************************)
\* C7 as stated: once a key pair is stored for an identity it is never
\* replaced, under any interleaving of send_email and
\* generate_encryption_keys requests: no step changes a stored row
C7_KeyPairNeverReplaced ==
    [][\A u \in Users :
          KeyRows(user_keys, u) # {} =>
              KeyRows(user_keys', u) = KeyRows(user_keys, u)]_vars

\* the last response answers a send_email that asked for encryption and
\* found no public key for the recipient
LazySendAnswered ==
    /\ response.h = "send_email"
    /\ response.req.should_encrypt
    /\ response.req.keypair # <<>>

SendSucceeded(row) ==
    /\ \E k \in 1..Len(outbox), nm \in {row.sender_email} \cup
                   { users[u].name[1] : u \in { w \in Users : users[w].name # <<>> } } :
           Val(outbox[k].raw)
               = raw_message(row.sender_email, row.recipient_email, nm, row.id)
    /\ \A r \in InFlight : r.h = "send_email" => r.email_id # row.id

\* the last response answers a decrypt_email of the recipient, who had a
\* stored key pair, for an email stored by a successful encrypted send, with
\* the database answering
RecipientViewed ==
    /\ response.h = "decrypt_email"
    /\ response.req.db_ok
    /\ response.req.row # <<>>
    /\ response.req.row[1].raw_encrypted_content # <<>>
    /\ SendSucceeded(response.req.row[1])
    /\ response.req.email = response.req.row[1].recipient_email
    /\ response.req.stored_keypair # <<>>

\* C9 as stated: decrypt_email by the recipient of an email stored by a
\* successful encrypted send returns the original plaintext body and the
\* subject without the marker
C9_ViewPath ==
    RecipientViewed =>
        /\ response.status = 200
        /\ response.email # <<>>
        /\ response.email[1].body = response.req.row[1].body
        /\ response.email[1].subject = response.req.row[1].subject

\* the last response answers a successful send_email that asked for
\* encryption and found a public key for the recipient
EncryptedSendSucceeded ==
    /\ response.h = "send_email"
    /\ response.status = 200
    /\ response.req.should_encrypt
    /\ response.req.public_key # <<>>

\* C10: after such a send the email record under the returned id holds the
\* serialized EncryptedMessage that encrypt_message produced for the request
\* body under the recipient's public key
C10_SendPersistence ==
    EncryptedSendSucceeded =>
        LET row == emails[response.email[1].id]
        IN /\ row.recipient_email = response.req.email_req.recipient_email
           /\ row.raw_encrypted_content =
                  <<Ref(serialize_encrypted_message(
                            encrypt_message(response.req.email_req.body,
                                            Val(response.req.public_key[1]),
                                            response.req.coin[1],
                                            DEBUG_MODE).msg))>>

\* an encrypted send to bob succeeded and its record holds encrypted content
C10_Witness ==
    /\ EncryptedSendSucceeded
    /\ response.req.email_req.recipient_email = BOB
    /\ emails[response.email[1].id].raw_encrypted_content # <<>>


\* C11 as stated: for a successful send whose body was encrypted, the message
\* handed to the mail transport has format_encrypted_subject(original
\* subject) as its subject and format_encrypted_body() as its body
C11_FramedHandoff ==
    (EncryptedSendSucceeded /\ response.req.raw_encrypted_content # <<>>) =>
        Val(outbox[response.req.gmail_id[1]].raw)
            = mime_message(response.req.email,
                           response.req.email_req.recipient_email,
                           format_encrypted_subject(response.req.email_req.subject),
                           format_encrypted_body)


(***************************************************************************)
(* The core called from several worker threads at once                     *)
(*                                                                         *)
(* DEBUG_MODE is a `static mut`: every debug_print! of generate_keypair,   *)
(* encrypt_message and decrypt_message reads it (unsafe, unsynchronised)   *)
(* and set_debug_mode, reached through POST /api/debug/quantum, writes it. *)
(* A call is split at its reads: it begins (first debug_print!), and it    *)
(* ends with the reads that guard its last debug_print!s, whose arguments  *)
(* are evaluated only when the flag read there is true.  A read that races *)
(* with the write yields the value before or after it, which is what the   *)
(* interleaving of the steps produces.                                     *)
(***************************************************************************)

WorkerPlaintexts == {P_HELLO, P_MIXED31}
WorkerSubjects == {S_HI}

\* the calls a worker can make; a decrypt_message call is given the message
\* that encrypt_message returned for p under the pair of the seed
WorkerCalls ==
    { [op |-> "generate_keypair", seed |-> s, p |-> <<>>] : s \in Seeds }
        \cup { [op |-> o, seed |-> 1, p |-> p] :
                 o \in {"encrypt_message", "decrypt_message"},
                 p \in WorkerPlaintexts }
        \cup { [op |-> "format_encrypted_subject", seed |-> 1, p |-> x] :
                 x \in WorkerSubjects }

\* the functions whose body reads DEBUG_MODE (debug_print!)
ReadsDebugMode(c) ==
    c.op \in {"generate_keypair", "encrypt_message", "decrypt_message"}

\* what the call returns when its last reads of DEBUG_MODE yield `debug`
CallResult(c, debug) ==
    CASE c.op = "generate_keypair" -> generate_keypair(c.seed)
      [] c.op = "encrypt_message" ->
            encrypt_message(c.p, generate_keypair(c.seed).public_key, 1, debug)
      [] c.op = "decrypt_message" ->
            decrypt_message(
                encrypt_message(c.p, generate_keypair(c.seed).public_key, 1,
                                FALSE).msg,
                generate_keypair(c.seed).secret_key, debug)
      [] c.op = "format_encrypted_subject" -> format_encrypted_subject(c.p)
      [] OTHER -> "unit"

\* a worker enters a core function: its first debug_print! reads DEBUG_MODE
WorkerBegin ==
    \E t \in Threads, c \in WorkerCalls :
        /\ threads[t] = Idle
        /\ threads' = [threads EXCEPT ![t] =
                          [pc |-> "running", call |-> c, debug0 |-> DEBUG_MODE,
                           raced |-> FALSE, res |-> "none"]]
        /\ UNCHANGED <<DEBUG_MODE, enc, call, serverVars, cacheVars>>

\* the worker reaches the end of the function: the last debug_print!s read
\* DEBUG_MODE again and the function returns
WorkerEnd ==
    \E t \in Threads :
        /\ threads[t].pc = "running"
        /\ threads' = [threads EXCEPT ![t] =
                          [@ EXCEPT !.pc = "done",
                                    !.res = CallResult(threads[t].call,
                                                        DEBUG_MODE)]]
        /\ UNCHANGED <<DEBUG_MODE, enc, call, serverVars, cacheVars>>

\* toggle_quantum_debug on a worker: set_debug_mode(enabled) writes the flag
\* while the calls running on the other workers are between their reads
WorkerSetDebugMode ==
    \E t \in Threads, enabled \in BOOLEAN :
        /\ threads[t] = Idle
        /\ DEBUG_MODE' = set_debug_mode(enabled)
        /\ threads' =
             [u \in Threads |->
                IF u = t
                THEN [pc |-> "done",
                      call |-> [op |-> "set_debug_mode", seed |-> 1, p |-> <<>>],
                      debug0 |-> DEBUG_MODE, raced |-> FALSE, res |-> "unit"]
                ELSE IF threads[u].pc = "running" /\ ReadsDebugMode(threads[u].call)
                THEN [threads[u] EXCEPT !.raced = TRUE]
                ELSE threads[u]]
        /\ UNCHANGED <<enc, call, serverVars, cacheVars>>

WorkerNext ==
    \/ WorkerBegin
    \/ WorkerEnd
    \/ WorkerSetDebugMode

SpecWorkers == CoreInit /\ [][WorkerNext]_vars

\* C12 as stated: under every interleaving of concurrent calls of the core
\* functions and set_debug_mode, no call reads a variable that another call
\* writes while it runs, and each call returns what it returns when it runs
\* alone (with the flag as it was when the call began)
C12_NoSharedState ==
    \A t \in Threads :
        threads[t] # Idle =>
            /\ ~threads[t].raced
            /\ threads[t].pc = "done" =>
                   threads[t].res = CallResult(threads[t].call, threads[t].debug0)


\* the key text is not valid base64, or decodes to other than `size` bytes
KeyFormatBad(key_b64, size) ==
    LET d == decode_config(key_b64)
    IN ~d.ok \/ Len(d.bytes) # size

\* C13: encrypt_message given a public key that is not valid base64 or not
\* of the KEM public-key size fails with KeyFormatError and produces no
\* EncryptedMessage, for every plaintext
C13_BadPublicKeyRejected ==
    (enc # NoEnc /\ KeyFormatBad(PublicKeyOf(enc.key), KYBER_PUBLICKEYBYTES)) =>
        enc.res = EncErr("KeyFormatError")

\* the empty plaintext was encrypted under a public key of three bytes
C13_Witness ==
    /\ enc # NoEnc
    /\ enc.p = <<>>
    /\ enc.key = <<"short", 0>>
    /\ enc.res.kind = "Err"

\* C14: decrypt_message given a secret key that is not valid base64 or not
\* of the KEM secret-key size fails with KeyFormatError and returns no
\* plaintext, for every EncryptedMessage
C14_BadSecretKeyRejected ==
    (call.op = "decrypt"
        /\ KeyFormatBad(SecretKeyOf(call.key), KYBER_SECRETKEYBYTES)) =>
        call.res = DecErr("KeyFormatError")

\* a message with a 32-byte encapsulated key (the demo fallback's case) was
\* handed to decrypt_message with a secret key of three bytes
C14_Witness ==
    /\ call.op = "decrypt"
    /\ call.tamper = "ek32"
    /\ call.key = <<"short", 0>>
    /\ call.res.kind = "Err"


\* C15: in every reachable state of the key store there is at most one key
\* pair per identity, and get_public_key(identity) returns the public key of
\* the pair get_keypair(identity) returns, or both return none
C15_OnePairPerIdentity ==
    \A u \in Users \cup Recipients :
        /\ Cardinality(KeyRows(user_keys, u)) <= 1
        /\ get_public_key(user_keys, u)
               = IF get_keypair(user_keys, u) = <<>> THEN <<>>
                 ELSE <<get_keypair(user_keys, u)[1].public_key>>

\* two send_email requests have each stored a different generated pair for
\* the same recipient, whose identity has a key pair
C15_Witness ==
    \E r1, r2 \in InFlight :
        /\ r1.h = "send_email" /\ r2.h = "send_email"
        /\ r1.key_stored /\ r2.key_stored
        /\ r1.email_req.recipient_email = r2.email_req.recipient_email
        /\ r1.keypair # r2.keypair
        /\ get_keypair(user_keys, r1.email_req.recipient_email) # <<>>


\* the EncryptedMessage held by a row with raw encrypted content
StoredMessage(row) ==
    deserialize_encrypted_message(Val(row.raw_encrypted_content[1])).msg

\* C16: once an email record has raw encrypted content, no step of send_email,
\* get_email, mark_email_as_read, decrypt_email, refresh_emails or
\* generate_encryption_keys removes the record or changes its ciphertext or
\* its encapsulated_key
C16_StoredMessageImmutable ==
    [][\A i \in 1..Len(emails) :
          emails[i].raw_encrypted_content # <<>> =>
              /\ i <= Len(emails')
              /\ emails'[i].raw_encrypted_content # <<>>
              /\ StoredMessage(emails'[i]) = StoredMessage(emails[i])]_vars

\* the recipient's mark_email_as_read was answered 200 for a record that
\* holds raw encrypted content
C16_Witness ==
    /\ response.h = "mark_email_as_read"
    /\ response.status = 200
    /\ emails[response.req.email_id].raw_encrypted_content # <<>>


\* C17: every EncryptedMessage that encrypt_message returns has an
\* encapsulated_key that is valid base64 of exactly the KEM ciphertext size,
\* the size decrypt_message requires
C17_EncapsulatedKeySize ==
    (enc # NoEnc /\ enc.res.kind = "Ok") =>
        LET d == decode_config(enc.res.msg.encapsulated_key)
        IN /\ d.ok
           /\ Len(d.bytes) = KYBER_CIPHERTEXTBYTES
           /\ Len(d.bytes) = EXPECTED_KYBER_CIPHERTEXT_SIZE

\* the empty plaintext was encrypted under a generated public key
C17_Witness ==
    /\ enc # NoEnc
    /\ enc.p = <<>>
    /\ enc.key[1] = "kp"
    /\ enc.res.kind = "Ok"


\* C18: generate_keypair changes no stored state and returns a KeyPair whose
\* keys are base64 of byte strings of exactly the KEM public-key and
\* secret-key sizes, so that encrypt_message accepts the public key and
\* decrypt_message the secret key without KeyFormatError
C18_GeneratedPairAccepted ==
    call.op = "generate_keypair" =>
        LET kp == call.res
            encrypted == encrypt_message(P_HELLO, kp.public_key, 1, DEBUG_MODE)
        IN /\ ~KeyFormatBad(kp.public_key, KYBER_PUBLICKEYBYTES)
           /\ ~KeyFormatBad(kp.secret_key, KYBER_SECRETKEYBYTES)
           /\ encrypted.kind = "Ok"
           /\ decrypt_message(encrypted.msg, kp.secret_key, DEBUG_MODE).err
                  # "KeyFormatError"
           /\ user_keys = {} /\ emails = <<>> /\ cache = {} /\ outbox = <<>>

\* generate_keypair has returned a pair, with the debug trace off
C18_Witness ==
    /\ call.op = "generate_keypair"
    /\ ~DEBUG_MODE
    /\ call.res.public_key # call.res.secret_key


\* encrypt_message has returned twice for one plaintext and one public key
EncryptedTwice ==
    /\ call.op = "encrypt_again"
    /\ call.res.kind = "Ok"

\* the secret the second encryption drew
AgainSecret ==
    encapsulate(decode_config(PublicKeyOf(enc.key)).bytes, call.coin).ss

\* C19 as stated: when two encryptions of one plaintext under one public key
\* draw different shared secrets, the two EncryptedMessage values differ in
\* encapsulated_key, and in ciphertext when the plaintext is not empty
C19_FreshEncapsulation ==
    (EncryptedTwice /\ EncSecret # AgainSecret) =>
        /\ call.res.msg.encapsulated_key # enc.res.msg.encapsulated_key
        /\ enc.p # <<>> => call.res.msg.ciphertext # enc.res.msg.ciphertext

\* C19 amended: the two values differ in encapsulated_key, and they differ in
\* ciphertext when the two secrets differ at a position the plaintext's
\* keystream uses (one of its first min(length, 32) bytes)
C19_FreshAmended ==
    (EncryptedTwice /\ EncSecret # AgainSecret) =>
        /\ call.res.msg.encapsulated_key # enc.res.msg.encapsulated_key
        /\ (\E j \in 1..KYBER_SSBYTES :
               j <= Len(enc.p) /\ EncSecret[j] # AgainSecret[j])
             => call.res.msg.ciphertext # enc.res.msg.ciphertext

\* two encryptions of "hello world" under one key returned values that differ
\* in both fields
C19_Witness ==
    /\ EncryptedTwice
    /\ enc.p = P_HELLO
    /\ call.res.msg.encapsulated_key # enc.res.msg.encapsulated_key
    /\ call.res.msg.ciphertext # enc.res.msg.ciphertext


\* a serialized EncryptedMessage deserializes to the same two fields
SerializeRoundTrip ==
    call.op = "serialize" => (call.res.ok /\ call.res.msg = call.msg)

\* C20 as stated: deserialize(serialize(m)) succeeds with the same ciphertext
\* and encapsulated_key for every EncryptedMessage m, and deserialize of a
\* text that is not a JSON object with both string fields fails with a
\* SerializationError and no message
C20_SerializationRoundTrip ==
    /\ SerializeRoundTrip
    /\ (call.op = "deserialize" /\ ~call.input.object_with_both) =>
           call.res = BadSeq

\* C20 amended: the round trip holds, and deserialize fails on a text that is
\* neither a JSON object with both string fields nor a JSON array of exactly
\* two strings
C20_SerializationAmended ==
    /\ SerializeRoundTrip
    /\ (call.op = "deserialize" /\ ~call.input.object_with_both
           /\ ~call.input.array_of_two) => call.res = BadSeq

\* a message whose ciphertext holds a quote and a backslash went through
\* serialize and deserialize
C20_Witness ==
    /\ call.op = "serialize"
    /\ call.res.ok
    /\ \E k \in 1..Len(call.msg.ciphertext) : call.msg.ciphertext[k] = 92
    /\ \E k \in 1..Len(call.msg.ciphertext) : call.msg.ciphertext[k] = 34


\* C21: format_encrypted_subject(s) is the marker, one space, then s, and
\* is_encrypted of it is true; is_encrypted(t) is true exactly when the
\* marker occurs in t at some position
C21_FormatAndDetect ==
    call.op = "frame" =>
        /\ Len(call.formatted) = Len(ENCRYPTION_MARKER) + 1 + Len(call.subject)
        /\ \A j \in 1..Len(ENCRYPTION_MARKER) :
               call.formatted[j] = ENCRYPTION_MARKER[j]
        /\ call.formatted[Len(ENCRYPTION_MARKER) + 1] = 32
        /\ \A j \in 1..Len(call.subject) :
               call.formatted[Len(ENCRYPTION_MARKER) + 1 + j] = call.subject[j]
        /\ call.marked
        /\ call.raw_marked
               = (\E i \in 1..Len(call.subject) :
                     /\ i + Len(ENCRYPTION_MARKER) - 1 <= Len(call.subject)
                     /\ \A j \in 1..Len(ENCRYPTION_MARKER) :
                            call.subject[i + j - 1] = ENCRYPTION_MARKER[j])

\* the subject "a [Q-ENCRYPTED] b", with the marker in the middle, was
\* formatted and tested
C21_Witness ==
    /\ call.op = "frame"
    /\ call.subject = <<97, 32>> \o ENCRYPTION_MARKER \o <<32, 98>>
    /\ call.raw_marked
    /\ call.marked


\* the byte of the keystream of secret ss at position i (from 1): ss[i mod n]
KeystreamByte(ss, i) == ss[((i - 1) % Len(ss)) + 1]

\* decrypt_message was handed a message whose encapsulated_key has the KEM
\* ciphertext size, with a secret key of the KEM size, so that it decapsulated
Decapsulated ==
    /\ call.op = "decrypt"
    /\ ~KeyFormatBad(SecretKeyOf(call.key), KYBER_SECRETKEYBYTES)
    /\ ~KeyFormatBad(call.msg.encapsulated_key, KYBER_CIPHERTEXTBYTES)

\* C22: the ciphertext of encrypt_message is, position for position, the
\* plaintext byte XOR the byte of the repeated shared secret, and the text
\* decrypt_message returns is, position for position, the ciphertext byte XOR
\* the byte of the repeated decapsulated secret, over the ciphertext's length
C22_KeystreamXor ==
    /\ (enc # NoEnc /\ enc.res.kind = "Ok") =>
           LET ct == decode_config(enc.res.msg.ciphertext)
           IN /\ ct.ok
              /\ Len(ct.bytes) = Len(enc.p)
              /\ \A i \in 1..Len(enc.p) :
                     ct.bytes[i] = XorByte(enc.p[i], KeystreamByte(EncSecret, i))
    /\ (Decapsulated /\ call.res.kind = "Ok") =>
           LET ct == decode_config(call.msg.ciphertext)
           IN /\ ct.ok
              /\ Len(call.res.val) = Len(ct.bytes)
              /\ \A i \in 1..Len(ct.bytes) :
                     call.res.val[i]
                         = XorByte(ct.bytes[i], KeystreamByte(DecSecret, i))

\* the 40-byte plaintext, longer than the secret, was encrypted and decrypted
\* with the matching key
C22_Witness ==
    /\ Decapsulated
    /\ enc.p = P_ASCII40
    /\ call.tamper = "none"
    /\ call.key = enc.key
    /\ call.res = DecOk(P_ASCII40)


\* C23: decrypt_message of one message with one secret key returns one
\* result (the same text, or the same kind of error), whatever the debug flag
\* is and whatever calls came before: the result of the call made equals the
\* result of the same call under either value of the flag
C23_DecryptDeterministic ==
    call.op = "decrypt" =>
        \A d \in BOOLEAN :
            LET other == decrypt_message(call.msg, SecretKeyOf(call.key), d)
            IN /\ other.kind = call.res.kind
               /\ other.val = call.res.val
               /\ other.err = call.res.err


\* the errors send_email answers when the lookup of the recipient's public
\* key fails and when encrypt_message or serialize_encrypted_message fails
EncryptionFailures ==
    {"Failed to get recipient's public key", "Failed to encrypt message"}

\* C24: a send_email whose key lookup, encryption or serialization fails ends
\* with an error response in the step that fails, and that step stores no
\* email record, hands nothing to the mail transport, leaves the cache and the
\* key store alone and leaves no request behind to go on
C24_FailedEncryptionAborts ==
    [][ (/\ response' # response
         /\ response'.h = "send_email"
         /\ response'.error \in EncryptionFailures)
        => /\ response'.status = 500
           /\ UNCHANGED <<emails, outbox, cache, user_keys, reqs>> ]_vars

\* a send whose key lookup failed was answered after an earlier send had
\* stored its record and handed its notification over: both are still alone
C24_Witness ==
    /\ response.h = "send_email"
    /\ response.error \in EncryptionFailures
    /\ response.req.should_encrypt
    /\ Len(emails) = 1
    /\ Len(outbox) = 1
    /\ reqs = EmptyBag


\* C25: decrypt_message checks in this order, and the first check that fails
\* decides the result: the secret key (KeyFormatError), then the
\* encapsulated_key, its decoding and its exact length
\* (CiphertextSizeMismatch), then decapsulation, then the decoding of the
\* ciphertext field (an error, never a plaintext), then the XOR and the
\* UTF-8 validation
C25_CheckOrder ==
    call.op = "decrypt" =>
        LET ekd == decode_config(call.msg.encapsulated_key)
            cd == decode_config(call.msg.ciphertext)
        IN IF KeyFormatBad(SecretKeyOf(call.key), KYBER_SECRETKEYBYTES)
           THEN call.res = DecErr("KeyFormatError")
           ELSE IF ~ekd.ok
           THEN call.res = DecErr("EncapsulatedKeyDecodeError")
           ELSE IF Len(ekd.bytes) # EXPECTED_KYBER_CIPHERTEXT_SIZE
           THEN call.res = DecErr("CiphertextSizeMismatch")
           ELSE IF ~cd.ok
           THEN call.res = DecErr("CiphertextDecodeError")
           ELSE IF ~from_utf8_ok(XorBytes(cd.bytes,
                                          KeyStretch(DecSecret, Len(cd.bytes))))
           THEN call.res = DecErr("Utf8DecodeError")
           ELSE call.res.kind \in {"Ok", "Panic"}


\* C26: every stored email record flagged is_encrypted holds a
\* raw_encrypted_content that deserializes to an EncryptedMessage
C26_EncryptedHasContent ==
    \A i \in 1..Len(emails) :
        emails[i].is_encrypted =>
            /\ emails[i].raw_encrypted_content # <<>>
            /\ deserialize_encrypted_message(
                   Val(emails[i].raw_encrypted_content[1])).ok


\* a send_email that encrypted its body has been answered with success
EncryptedSendAnswered ==
    /\ response.h = "send_email"
    /\ response.status = 200
    /\ response.req.raw_encrypted_content # <<>>

\* C27: after a send that encrypted its body, the plaintext body is neither
\* in the message handed to the mail transport nor in the body field of the
\* stored record nor in the body field of the cached email
C27_PlaintextNotKept ==
    EncryptedSendAnswered =>
        LET body == response.req.email_req.body
            id == response.email[1].id
        IN /\ ~Contains(decode_config(Val(outbox[response.req.gmail_id[1]].raw)).bytes,
                        body)
           /\ emails[id].body # body
           /\ \A e \in cache : e.email_id = id => e.email.body # body


\* C28: mark_email_as_read succeeds only for the recipient of the email, and
\* once it has answered "Email marked as read" the email's row in the
\* database has read_at set (so that a later mark_email_as_read finds it
\* already read and a later get_email returns it with read_at)
C28_MarkAsReadPersists ==
    (response.h = "mark_email_as_read" /\ response.status = 200) =>
        LET row == emails[response.req.email_id]
        IN /\ row.recipient_email = response.req.email
           /\ response.message = "Email marked as read" =>
                  /\ row.read_at # <<>>
                  /\ get_email(emails, row.id)[1].read_at # <<>>


\* the admin users: table users has no role or admin column, and no handler
\* tells an admin from another user
Admins == {}

\* C29: the debug flag changes only in a toggle_quantum_debug of an admin
\* user; a toggle_quantum_debug without a session cookie or with a session
\* token of no user is answered Unauthorized and leaves the flag unchanged
C29_OnlyAdminsToggle ==
    [][ /\ DEBUG_MODE' # DEBUG_MODE =>
               /\ response'.h = "toggle_quantum_debug"
               /\ response'.status = 200
               /\ response'.req.email \in Admins
        /\ (/\ response' # response
            /\ response'.h = "toggle_quantum_debug"
            /\ response'.req.email = <<>>) =>
               /\ response'.status = 401
               /\ DEBUG_MODE' = DEBUG_MODE ]_vars


(***************************************************************************)
(* RedisCache::get_connection_with_retry                                   *)
(*                                                                         *)
(* The loop is split at its two awaits: get_async_connection and sleep.    *)
(* retry.attempts is the outcome of every get_async_connection of the call *)
(* so far, retry.slept the seconds slept, retry.result what was returned.  *)
(***************************************************************************)
MAX_RETRIES == 3
RETRY_DELAY == 1    \* Duration::from_secs(1)

\* the errors get_async_connection can return
ConnectionErrors ==
    {"ConnectionRefused", "TimedOut", "ConnectionReset", "HostUnreachable"}

\* the loop going on after MAX_RETRIES failures
RetriesExhaustedLate(retries) == retries > MAX_RETRIES

\* if retries >= MAX_RETRIES
RetriesExhausted(retries) == retries >= MAX_RETRIES

\* a cache operation calls get_connection_with_retry: let mut retries = 0
GetConnectionBegin ==
    /\ retry.pc \in {"idle", "done"}
    /\ retry' = [NoRetry EXCEPT !.pc = "connect"]

\* self.client.get_async_connection().await and the match on its result
GetAsyncConnection ==
    /\ retry.pc = "connect"
    /\ \E outcome \in {"Ok"} \cup ConnectionErrors :
         LET attempts == Append(retry.attempts, outcome)
             retries == retry.retries + 1
         IN IF outcome = "Ok"
            THEN retry' = [retry EXCEPT !.pc = "done", !.attempts = attempts,
                                        !.result = <<[ok |-> TRUE, err |-> ""]>>]
            ELSE IF RetriesExhausted(retries)
            THEN retry' = [retry EXCEPT !.pc = "done", !.attempts = attempts,
                                        !.retries = retries,
                                        !.result = <<[ok |-> FALSE,
                                                      err |-> outcome]>>]
            ELSE retry' = [retry EXCEPT !.pc = "sleep", !.attempts = attempts,
                                        !.retries = retries]

\* tokio::time::sleep(RETRY_DELAY).await
RetrySleep ==
    /\ retry.pc = "sleep"
    /\ retry' = [retry EXCEPT !.pc = "connect", !.slept = @ + RETRY_DELAY]

RetryNext ==
    \/ GetConnectionBegin /\ UNCHANGED <<coreVars, serverVars, threadVars>>
    \/ GetAsyncConnection /\ UNCHANGED <<coreVars, serverVars, threadVars>>
    \/ RetrySleep /\ UNCHANGED <<coreVars, serverVars, threadVars>>

\* every get_async_connection and every sleep completes
SpecRetry ==
    /\ CoreInit
    /\ [][RetryNext]_vars
    /\ WF_vars(GetAsyncConnection /\ UNCHANGED <<coreVars, serverVars, threadVars>>)
    /\ WF_vars(RetrySleep /\ UNCHANGED <<coreVars, serverVars, threadVars>>)

\* the attempts of the call so far that failed
FailedAttempts == { i \in 1..Len(retry.attempts) : retry.attempts[i] # "Ok" }

\* the call never makes more than MAX_RETRIES attempts, has slept RETRY_DELAY
\* before every attempt but the first, returns the connection on its first
\* successful attempt, and returns an error only after exactly MAX_RETRIES
\* failed attempts, the error of the last one
RetryBounded ==
    /\ Len(retry.attempts) <= MAX_RETRIES
    /\ retry.pc = "connect" => retry.slept = Len(retry.attempts) * RETRY_DELAY
    /\ retry.pc = "done" =>
           /\ retry.slept = (Len(retry.attempts) - 1) * RETRY_DELAY
           /\ IF retry.result[1].ok
              THEN FailedAttempts = 1..(Len(retry.attempts) - 1)
              ELSE /\ Len(retry.attempts) = MAX_RETRIES
                   /\ FailedAttempts = 1..MAX_RETRIES
                   /\ retry.result[1].err = retry.attempts[MAX_RETRIES]

\* C30: get_connection_with_retry always terminates; it returns the
\* connection on the first successful attempt; when every attempt fails it
\* makes exactly MAX_RETRIES attempts with RETRY_DELAY between them and
\* returns the error of the last; it never makes a fourth attempt
C30_RetryTerminates ==
    /\ []RetryBounded
    /\ (retry.pc \in {"connect", "sleep"}) ~> (retry.pc = "done")

\* a call whose three attempts failed, with different errors, has returned
C30_Witness ==
    /\ retry.pc = "done"
    /\ retry.attempts = <<"ConnectionRefused", "TimedOut", "ConnectionReset">>
    /\ retry.result = <<[ok |-> FALSE, err |-> "ConnectionReset"]>>
    /\ retry.slept = 2 * RETRY_DELAY

=============================================================================
